---- MODULE Spec2Model ----
(***************************************************************************)
(* Board-state synchronisation between a chess.com page and the En         *)
(* Croissant backend.  The repository carries several generations of the   *)
(* userscript; two of them are modelled here:                              *)
(*   - the "FEN sender" (unnamed/part_000 lines 24-1929), which sends a    *)
(*     FEN string over a one-shot POST, and                                *)
(*   - the "BoardSync" script (unnamed/part_000 lines 2980-4454), which    *)
(*     sends a (pieces, moveList, variant) record over a WebSocket with a  *)
(*     POST fallback and tracks game sessions,                             *)
(* together with the pure helpers of chrome-extension/violent_monkey.js    *)
(* and of the earlier BoardSync scaffold (part_000 lines 2633-2963).       *)
(***************************************************************************)
EXTENDS Integers, Sequences, FiniteSets, TLC

VARIABLES
  page,            \* the external document: layout, pieces, move list, URL
  now,             \* Date.now(), in milliseconds
  lastSent,        \* BoardSync: last transmitted {pieces, moveList, variant}
  ws,              \* BoardSync: readyState of the current WebSocket
  debounceTimer,   \* handle of the last debounce timer that was armed
  timers,          \* pending setTimeout callbacks, as records [kind, due]
  currentGame,     \* BoardSync: the current GameSession
  currentVariant,  \* BoardSync: the active variant
  wire,            \* transport attempts made by the last handler that ran
  currentFen,      \* FEN sender: the FEN string sent last
  ret,             \* what the function applied last returned
  net,             \* FEN sender: POST requests in flight, last one answered
  overlay,         \* FEN sender: the analysis overlay drawn over the board
  cachedPlayerColor, \* the perspective a script keeps between calls
  hist             \* observation record kept for the properties below

vars == <<page, now, lastSent, ws, debounceTimer, timers, currentGame,
          currentVariant, wire, currentFen, ret, net, overlay,
          cachedPlayerColor, hist>>

fenVars == <<currentFen, ret, net, overlay, cachedPlayerColor>>

Null == "null"

\* a FEN string is the sequence of its six fields; NoFen stands for null
\* and for the empty string, which the code does not tell apart (!newFen)
NoFen == <<>>

\* cachedPlayerColor is <<>> for null and <<b>> for the boolean b
NoCache == <<>>

\* the requests of the FEN sender awaiting an answer, and the body of the
\* last one the backend answered
NoNet == [inflight |-> {}, acked |-> NoFen]

GM_xmlhttpRequest(n, fen) == [n EXCEPT !.inflight = @ \cup {fen}]

\* no analysis has arrived and no overlay has been created: attached says
\* that analysisOverlay and labelContainer are nodes of the document, style
\* is their top, left, width and height, arrows lists the arrows (each
\* with its label) in the order they were appended
NoOverlay ==
  [attached |-> FALSE, style |-> [top |-> 0, left |-> 0, width |-> 0, height |-> 0],
   arrows |-> <<>>, hasAnalysis |-> FALSE, currentAnalysis |-> <<>>]

(***************************************************************************)
(* Program constants.                                                      *)
(***************************************************************************)
DEBOUNCE_MS == 150
DEBOUNCE_DELAY_MS == 150
RECONNECT_MS == 5000
IDLE_MS == 15 * 60 * 1000

(***************************************************************************)
(* Bounds of the model.                                                    *)
(***************************************************************************)
MaxTicks == 2          \* how many times the clock advances in one behaviour
MaxMoves == 12         \* longest move list the page shows
LongGame == 40         \* length of the longest recorded game
MaxBurst == 5          \* most notifications counted in one debounce window
ShortTick == 100       \* a clock step shorter than the debounce delay
SquarePx == 100        \* on-screen size of one square of a LIVE_BOARD

(***************************************************************************)
(* Squares and piece codes.                                                *)
(***************************************************************************)
Files == <<"a", "b", "c", "d", "e", "f", "g", "h">>
RankCh == <<"1", "2", "3", "4", "5", "6", "7", "8">>
BackRank == <<"R", "N", "B", "Q", "K", "B", "N", "R">>

Sq(f, r) == Files[f] \o RankCh[r]

Coords == (1..8) \X (1..8)

toUpperCase(c) ==
  CASE c = "p" -> "P" [] c = "n" -> "N" [] c = "b" -> "B"
    [] c = "r" -> "R" [] c = "q" -> "Q" [] c = "k" -> "K"
    [] OTHER -> c

toLowerCase(c) ==
  CASE c = "P" -> "p" [] c = "N" -> "n" [] c = "B" -> "b"
    [] c = "R" -> "r" [] c = "Q" -> "q" [] c = "K" -> "k"
    [] OTHER -> c

(***************************************************************************)
(* Positions the page can show.  A position gives, for file f and rank r,  *)
(* a piece code, or Empty.  A piece code is a string of two characters,    *)
(* written as the sequence of its characters: <<"w", "K">> is "wK".        *)
(***************************************************************************)
Empty == <<>>

Colours == {"w", "b"}
Kinds == {"P", "N", "B", "R", "Q", "K"}

\* first and second character of a two-character piece code
ColourOf(code) == code[1]
KindOf(code) == code[2]

StartPos ==
  [c \in Coords |->
     CASE c[2] = 1 -> <<"w", BackRank[c[1]]>>
       [] c[2] = 2 -> <<"w", "P">>
       [] c[2] = 7 -> <<"b", "P">>
       [] c[2] = 8 -> <<"b", BackRank[c[1]]>>
       [] OTHER -> Empty]

AfterE4 == [StartPos EXCEPT ![<<5, 2>>] = Empty, ![<<5, 4>>] = <<"w", "P">>]

\* the start arrangement with the colours exchanged
SwappedPos ==
  [c \in Coords |->
     IF StartPos[c] = Empty THEN Empty
     ELSE <<IF ColourOf(StartPos[c]) = "w" THEN "b" ELSE "w",
            KindOf(StartPos[c])>>]

SparsePos ==
  [c \in Coords |->
     CASE c = <<5, 1>> -> <<"w", "K">>
       [] c = <<1, 1>> -> <<"w", "R">>
       [] c = <<5, 8>> -> <<"b", "K">>
       [] OTHER -> Empty]

EmptyPos == [c \in Coords |-> Empty]

PositionOf(name) ==
  CASE name = "start" -> StartPos
    [] name = "e4" -> AfterE4
    [] name = "swapped" -> SwappedPos
    [] name = "sparse" -> SparsePos
    [] OTHER -> EmptyPos

(***************************************************************************)
(* Move lists the page can show: the first n moves of one of two games.    *)
(***************************************************************************)
LineA == <<"e4", "e5", "Nf3", "Nc6", "Bb5", "a6", "Ba4", "Nf6", "O-O",
           "Be7", "Re1", "b5", "Bb3">>
LineB == <<"d4", "d5", "c4", "e6", "Nc3", "Nf6", "Bg5", "Be7", "e3",
           "O-O", "Nf3", "h6", "Bh4">>

\* a game that begins like LineA and leaves it at the fifth move
LineC == <<"e4", "e5", "Nf3", "Nc6", "Bc4", "Bc5", "c3", "Nf6", "d3",
           "d6", "O-O", "O-O", "Re1">>

MoveAt(line, i) ==
  LET base == CASE line = "A" -> LineA [] line = "C" -> LineC
                [] OTHER -> LineB
  IN base[((i - 1) % Len(base)) + 1]

(***************************************************************************)
(* The document.  page is a record                                         *)
(*   layout   "WC_BOARD" | "LIVE_BOARD" | "UNKNOWN": which board element   *)
(*            the document contains                                        *)
(*   pos      the position shown (a name understood by PositionOf)         *)
(*   order    "fwd" | "rev": document order of the piece elements          *)
(*   flipped  TRUE when the board is drawn with Black at the bottom        *)
(*   line, n  the move list shows the first n moves of game line           *)
(*   gameUrl  the game id in location.href, or Null                        *)
(*   variantHint  the variant the URL names                                *)
(* Piece elements are records: a wc-chess-board piece carries the classes  *)
(* square-<f><r> and <colour><kind> ("wk"); a LIVE_BOARD piece carries     *)
(* data-piece and a translate(x px, y px) transform.                       *)
(***************************************************************************)
CoordOfIndex(i) == <<((i - 1) % 8) + 1, ((i - 1) \div 8) + 1>>

Reverse(s) == [i \in 1..Len(s) |-> s[Len(s) + 1 - i]]

OccupiedCoords(pos) ==
  LET all == [i \in 1..64 |-> CoordOfIndex(i)]
      occupied(c) == pos[c] # Empty
  IN SelectSeq(all, occupied)

\* where square c is drawn: <<column from the left, row from the top>>, 0..7
VisualCell(c, flipped) ==
  IF flipped THEN <<8 - c[1], c[2] - 1>> ELSE <<c[1] - 1, 8 - c[2]>>

NoSquareClass == <<0, 0>>
NoAttr == <<>>

PieceElement(p, c) ==
  LET pc == PositionOf(p.pos)[c]
      cell == VisualCell(c, p.flipped)
  IN IF p.layout = "WC_BOARD"
     THEN [squareClass |-> c,
           pieceClass |-> <<ColourOf(pc), toLowerCase(KindOf(pc))>>,
           dataPiece |-> NoAttr, hasTranslate |-> FALSE, tx |-> 0, ty |-> 0]
     ELSE [squareClass |-> NoSquareClass, pieceClass |-> NoAttr,
           dataPiece |-> <<ColourOf(pc), toLowerCase(KindOf(pc))>>,
           hasTranslate |-> TRUE,
           tx |-> cell[1] * SquarePx, ty |-> cell[2] * SquarePx]

PieceElements(p) ==
  LET cs == OccupiedCoords(PositionOf(p.pos))
      inOrder == IF p.order = "rev" THEN Reverse(cs) ELSE cs
  IN [i \in 1..Len(inOrder) |-> PieceElement(p, inOrder[i])]

MoveNodes(p) == [i \in 1..p.n |-> MoveAt(p.line, i)]

(***************************************************************************)
(* JavaScript objects with string keys keep their keys in insertion order, *)
(* and JSON.stringify writes them in that order.  An object is a record    *)
(* [keys, val]: the keys in insertion order and the value of each key.     *)
(***************************************************************************)
\* the element of a one-element set: Only({e(v) : v \in {d}}) is e(d), with
\* d worked out once
Only(S) == CHOOSE v \in S : TRUE

EmptyObject == [keys |-> <<>>, val |-> <<>>]

HasKey(obj, k) == \E i \in 1..Len(obj.keys) : obj.keys[i] = k

Undefined == <<>>

Get(obj, k) == IF HasKey(obj, k) THEN obj.val[k] ELSE Undefined

JSON_stringify(obj) ==
  [i \in 1..Len(obj.keys) |-> <<obj.keys[i], obj.val[obj.keys[i]]>>]

JSON_parse(text) ==
  [keys |-> [i \in 1..Len(text) |-> text[i][1]],
   val |-> [k \in {text[i][1] : i \in 1..Len(text)} |->
              text[(CHOOSE i \in 1..Len(text) : text[i][1] = k)][2]]]

\* the content of an object, whatever the order of its keys
Entries(obj) == {<<obj.keys[i], obj.val[obj.keys[i]]>> : i \in 1..Len(obj.keys)}

(***************************************************************************)
(* BoardSync: extraction.                                                  *)
(***************************************************************************)
\* document.querySelector(sel) finds a node.  A page of the synchronisation
\* models is described by its layout and holds the board root of that layout
\* only; a document of Documents below lists the nodes it holds.
querySelector(p, sel) ==
  IF "layout" \in DOMAIN p
  THEN (sel = "wc-chess-board" /\ p.layout = "WC_BOARD")
       \/ (sel = ".TheBoard-layers" /\ p.layout = "LIVE_BOARD")
  ELSE sel \in p.nodes

detectBoardType(p) ==
  IF querySelector(p, "wc-chess-board") THEN "WC_BOARD"
  ELSE IF querySelector(p, ".TheBoard-layers") THEN "LIVE_BOARD"
  ELSE "UNKNOWN"

\* cls[0] + cls[1].toUpperCase() for a class such as "wk"
NormalizeCode(cls) == <<cls[1], toUpperCase(cls[2])>>

\* the colour and type extractPieces reads from a data-piece attribute:
\* piece[0] === 'w' ? 'w' : 'b', then piece[1].toUpperCase()
LiveCode(piece) ==
  <<IF piece[1] = "w" THEN "w" ELSE "b", toUpperCase(piece[2])>>

\* the key and value one piece element assigns, or NoEntry when the element
\* is skipped
NoEntry == <<"", <<>>>>

decodePiece(type, el) ==
  IF type = "WC_BOARD"
  THEN IF el.squareClass # NoSquareClass /\ el.pieceClass # NoAttr
       THEN <<Sq(el.squareClass[1], el.squareClass[2]),
              NormalizeCode(el.pieceClass)>>
       ELSE NoEntry
  ELSE IF el.dataPiece # NoAttr /\ el.hasTranslate /\ SquarePx > 0
       THEN LET fileIdx == el.tx \div SquarePx
                rankIdx == el.ty \div SquarePx
            IN IF fileIdx >= 0 /\ fileIdx < 8 /\ rankIdx >= 0 /\ rankIdx < 8
               THEN <<Sq(fileIdx + 1, 8 - rankIdx), LiveCode(el.dataPiece)>>
               ELSE NoEntry
       ELSE NoEntry

\* pieces[key] = value for each entry in turn: a key takes its place in the
\* object when it is first assigned and keeps the value assigned last
AssignAll(entries) ==
  LET idx == [i \in 1..Len(entries) |-> i]
      firstOf(i) == /\ entries[i] # NoEntry
                    /\ \A j \in 1..(i - 1) : entries[j][1] # entries[i][1]
      lastOf(k) == CHOOSE i \in 1..Len(entries) :
                     /\ entries[i][1] = k
                     /\ \A j \in (i + 1)..Len(entries) : entries[j][1] # k
  IN Only({[keys |-> [n \in 1..Len(firsts) |-> entries[firsts[n]][1]],
            val |-> [k \in {entries[firsts[n]][1] : n \in 1..Len(firsts)} |->
                       entries[lastOf(k)][2]]] :
             firsts \in {SelectSeq(idx, firstOf)}})

extractPieces(p) ==
  IF detectBoardType(p) \in {"WC_BOARD", "LIVE_BOARD"}
  THEN Only({AssignAll(entries) :
                entries \in {[i \in 1..Len(els) |->
                                decodePiece(detectBoardType(p), els[i])] :
                              els \in {PieceElements(p)}}})
  ELSE EmptyObject

extractMoveList(p) ==
  IF detectBoardType(p) \in {"WC_BOARD", "LIVE_BOARD"} THEN MoveNodes(p)
  ELSE <<>>

\* the URL tells the variant (methods 0 and 1); the text and board
\* heuristics that follow in the source are not modelled
detectChessVariant(p) == p.variantHint

extractGameIdFromUrl(p) == p.gameUrl

(***************************************************************************)
(* BoardSync: game sessions.                                               *)
(***************************************************************************)
NoId == -1
NoPosition == [keys |-> <<Null>>, val |-> <<>>]

NoGame == [id |-> NoId, gameIdFromUrl |-> Null, startPosition |-> NoPosition,
           moveList |-> <<>>, variant |-> "standard", lastUpdated |-> 0]

keyPositions ==
  {<<"a1", <<"w", "R">>>>, <<"e1", <<"w", "K">>>>, <<"a8", <<"b", "R">>>>,
   <<"e8", <<"b", "K">>>>, <<"b1", <<"w", "N">>>>, <<"g1", <<"w", "N">>>>,
   <<"b8", <<"b", "N">>>>, <<"g8", <<"b", "N">>>>}

isStandardInitialPosition(pieces) ==
  Cardinality({kp \in keyPositions : Get(pieces, kp[1]) = kp[2]}) >= 6

\* twice the value the function returns (it halves the count, which can
\* leave a fraction)
countPositionDifferencesDoubled(positionA, positionB) ==
  Cardinality({i \in 1..Len(positionA.keys) :
                 Get(positionB, positionA.keys[i]) # positionA.val[positionA.keys[i]]})
  + Cardinality({i \in 1..Len(positionB.keys) :
                 Get(positionA, positionB.keys[i]) # positionB.val[positionB.keys[i]]})

slice(s, n) == SubSeq(s, 1, IF Len(s) < n THEN Len(s) ELSE n)

\* a variant without the check of the move list length (method 2)
newGameSignalNoReset(game, pieces, moveList, urlId, t) ==
  CASE game.id = NoId -> "noSession"
    [] game.id # NoId /\ urlId # Null /\ game.gameIdFromUrl # Null
         /\ urlId # game.gameIdFromUrl -> "urlChanged"
    [] OTHER ->
       IF game.startPosition # NoPosition /\ Len(moveList) < 3
          /\ countPositionDifferencesDoubled(game.startPosition, pieces) > 2 * 16
       THEN "positionChanged"
       ELSE IF isStandardInitialPosition(pieces) /\ Len(game.moveList) > 10
            THEN "initialPosition"
       ELSE IF Len(game.moveList) > 5 /\ Len(moveList) > 5
               /\ slice(game.moveList, 5) # slice(moveList, 5)
            THEN "firstMoves"
       ELSE IF t - game.lastUpdated > IDLE_MS THEN "idle"
       ELSE "none"

\* a variant without the check of the time since the last update (method 6)
newGameSignalNoIdle(game, pieces, moveList, urlId, t) ==
  CASE game.id = NoId -> "noSession"
    [] game.id # NoId /\ urlId # Null /\ game.gameIdFromUrl # Null
         /\ urlId # game.gameIdFromUrl -> "urlChanged"
    [] OTHER ->
       IF Len(game.moveList) > 5 /\ Len(moveList) < 2 THEN "moveListReset"
       ELSE IF game.startPosition # NoPosition /\ Len(moveList) < 3
               /\ countPositionDifferencesDoubled(game.startPosition, pieces) > 2 * 16
            THEN "positionChanged"
       ELSE IF isStandardInitialPosition(pieces) /\ Len(game.moveList) > 10
            THEN "initialPosition"
       ELSE IF Len(game.moveList) > 5 /\ Len(moveList) > 5
               /\ slice(game.moveList, 5) # slice(moveList, 5)
            THEN "firstMoves"
       ELSE "none"

\* which of the checks of detectNewGame answers, in the order of the code
newGameSignal(game, pieces, moveList, urlId, t) ==
  CASE game.id = NoId -> "noSession"
    [] game.id # NoId /\ urlId # Null /\ game.gameIdFromUrl # Null
         /\ urlId # game.gameIdFromUrl -> "urlChanged"
    [] OTHER ->
       IF Len(game.moveList) > 5 /\ Len(moveList) < 2 THEN "moveListReset"
       ELSE IF game.startPosition # NoPosition /\ Len(moveList) < 3
               /\ countPositionDifferencesDoubled(game.startPosition, pieces) > 2 * 16
            THEN "positionChanged"
       ELSE IF isStandardInitialPosition(pieces) /\ Len(game.moveList) > 10
            THEN "initialPosition"
       ELSE IF Len(game.moveList) > 5 /\ Len(moveList) > 5
               /\ slice(game.moveList, 5) # slice(moveList, 5)
            THEN "firstMoves"
       ELSE IF t - game.lastUpdated > IDLE_MS THEN "idle"
       ELSE "none"

detectNewGame(game, pieces, moveList, urlId, t) ==
  newGameSignal(game, pieces, moveList, urlId, t) # "none"

startNewGame(pieces, moveList, variant, urlId, t) ==
  [id |-> t, gameIdFromUrl |-> urlId, startPosition |-> pieces,
   moveList |-> moveList, variant |-> variant, lastUpdated |-> t]

updateCurrentGame(game, moveList, t) ==
  [game EXCEPT !.moveList = moveList, !.lastUpdated = t]

(***************************************************************************)
(* BoardSync: transport.  An attempt is one ws.send or one                 *)
(* GM_xmlhttpRequest; wire collects the attempts of the running handler.   *)
(***************************************************************************)
\* a variant that announces a game the way a board update is sent
sendNewGameNotificationAsUpdate(game, readyState, t) ==
  LET data == [type |-> "new_game", gameId |-> game.id,
               startPosition |-> JSON_stringify(game.startPosition),
               variant |-> game.variant, timestamp |-> t]
  IN IF readyState = "OPEN"
     THEN <<[via |-> "ws", endpoint |-> "/ws", type |-> "board_update",
             body |-> data]>>
     ELSE <<[via |-> "http", endpoint |-> "/fen", type |-> Null, body |-> data]>>

sendNewGameNotification(game, readyState, t) ==
  LET data == [type |-> "new_game", gameId |-> game.id,
               startPosition |-> JSON_stringify(game.startPosition),
               variant |-> game.variant, timestamp |-> t]
  IN IF readyState = "OPEN"
     THEN <<[via |-> "ws", endpoint |-> "/ws", type |-> "new_game", body |-> data]>>
     ELSE <<[via |-> "http", endpoint |-> "/fen/new_game", type |-> "new_game",
             body |-> data]>>

sendBoardData(data, readyState) ==
  IF readyState = "OPEN"
  THEN <<[via |-> "ws", endpoint |-> "/ws", type |-> "board_update", body |-> data]>>
  ELSE <<[via |-> "http", endpoint |-> "/fen", type |-> Null, body |-> data]>>

(***************************************************************************)
(* Timers.  setTimeout appends a record; a handle is the due time of the   *)
(* timer it names, which is unique among the pending debounce timers the   *)
(* handle can still name.                                                  *)
(***************************************************************************)
NoTimer == -1
FiredTimer == -2

RemoveAt(s, i) == [j \in 1..(Len(s) - 1) |-> IF j < i THEN s[j] ELSE s[j + 1]]

Pending(ts, kind) == {i \in 1..Len(ts) : ts[i].kind = kind}

clearTimeoutNoop(ts, handle) == ts

clearTimeout(ts, handle) ==
  LET named == {i \in Pending(ts, "debounce") : ts[i].due = handle}
  IN IF named = {} THEN ts
     ELSE RemoveAt(ts, CHOOSE i \in named : \A j \in named : i <= j)

\* onBoardChange: clearTimeout(debounceTimer); debounceTimer = setTimeout(...)
onBoardChange(ts, handle, t) ==
  Append(clearTimeout(ts, handle), [kind |-> "debounce", due |-> t + DEBOUNCE_MS])

(***************************************************************************)
(* BoardSync: one pass of extractBoardData over the document p.  The       *)
(* result records what the pass changed and what it sent.                  *)
(***************************************************************************)
SUPPORTED_VARIANTS ==
  {"standard", "chess960", "crazyhouse", "kingOfTheHill", "threeCheck",
   "antichess", "atomic", "horde", "racingKings"}

extractBoardData(p, game, variant, readyState, t) ==
  IF detectBoardType(p) \notin {"WC_BOARD", "LIVE_BOARD"}
  THEN [isNull |-> TRUE, variant |-> variant, rearmed |-> FALSE, game |-> game,
        signal |-> "none", sent |-> <<>>, pieces |-> EmptyObject,
        moveList |-> <<>>]
  ELSE
    LET pieces == extractPieces(p)
        moveList == extractMoveList(p)
        detectedVariant == detectChessVariant(p)
        \* setVariant(detectedVariant): takes effect for a supported variant
        \* and calls onBoardChange() when the variant changed
        setIt == detectedVariant # variant /\ detectedVariant \in SUPPORTED_VARIANTS
        variant1 == IF setIt THEN detectedVariant ELSE variant
        signal == newGameSignal(game, pieces, moveList, extractGameIdFromUrl(p), t)
        game1 == IF signal # "none"
                 THEN startNewGame(pieces, moveList, variant1,
                                   extractGameIdFromUrl(p), t)
                 ELSE updateCurrentGame(game, moveList, t)
    IN [isNull |-> FALSE, variant |-> variant1, rearmed |-> setIt,
        game |-> game1, signal |-> signal,
        sent |-> IF signal # "none"
                 THEN sendNewGameNotification(game1, readyState, t) ELSE <<>>,
        pieces |-> pieces, moveList |-> moveList]

\* the record sendBoardData serialises
BoardData(r, t) ==
  [gameId |-> r.game.id, pieces |-> JSON_stringify(r.pieces),
   moveList |-> r.moveList, variant |-> r.variant, timestamp |-> t]

isChanged(r, last) ==
  \/ JSON_stringify(r.pieces) # JSON_stringify(last.pieces)
  \/ r.moveList # last.moveList
  \/ r.variant # last.variant

\* the document the debounce callback works on: it calls extractBoardData()
\* when it runs, so it reads the document as it is then
DebounceReadFirst(livePage, firstPage) == firstPage

DebounceRead(livePage, firstPage) == livePage

(***************************************************************************)
(* The state (BoardState, moveList, variant) a pass produced, as a value   *)
(* that does not depend on the order in which the pieces were found.       *)
(***************************************************************************)
Triple(r) == [pieces |-> Entries(r.pieces), moveList |-> r.moveList,
              variant |-> r.variant]

NoTriple == [pieces |-> {}, moveList |-> <<>>, variant |-> Null]

(***************************************************************************)
(* What the page shows during a behaviour of BoardSync.  The layout stays  *)
(* the one found at start-up; the page moves freely among these scenes.    *)
(***************************************************************************)
Scene(pos, order, line, n, gameUrl, variantHint) ==
  [pos |-> pos, order |-> order, flipped |-> FALSE, line |-> line, n |-> n,
   gameUrl |-> gameUrl, variantHint |-> variantHint]

Scenes ==
  {Scene("start", "fwd", "A", 0, "g1", "standard"),
   Scene("start", "rev", "A", 0, "g1", "standard"),
   Scene("e4", "fwd", "A", 1, "g1", "standard"),
   Scene("swapped", "fwd", "A", 1, Null, "chess960")}

\* what the page shows when the script starts
FirstScene == Scene("start", "fwd", "A", 0, "g1", "standard")

OnLayout(scene, layout) ==
  [layout |-> layout, pos |-> scene.pos, order |-> scene.order,
   flipped |-> scene.flipped, line |-> scene.line, n |-> scene.n,
   gameUrl |-> scene.gameUrl, variantHint |-> scene.variantHint]

(***************************************************************************)
(* BoardSync: the state after mainInit found a board: initBoardSync has    *)
(* opened a socket and armed the first debounce timer.                     *)
(***************************************************************************)
NoRet == [fn |-> "none"]

InitHist(p) ==
  [ticks |-> 0, owed |-> 1, notifs |-> 1,
   firstPage |-> p, firePage |-> p, seenPage |-> p,
   cycled |-> FALSE, triple |-> NoTriple, repeat |-> "none",
   offlineId |-> NoId, forced |-> "no"]

Init ==
  /\ page \in {OnLayout(FirstScene, l) : l \in {"WC_BOARD", "LIVE_BOARD"}}
  /\ now = 0
  /\ lastSent = [pieces |-> EmptyObject, moveList |-> <<>>, variant |-> ""]
  /\ ws = "CONNECTING"
  /\ debounceTimer = DEBOUNCE_MS
  /\ timers = <<[kind |-> "debounce", due |-> DEBOUNCE_MS]>>
  /\ currentGame = NoGame
  /\ currentVariant = "standard"
  /\ wire = <<>>
  /\ currentFen = <<>>
  /\ ret = NoRet
  /\ net = NoNet
  /\ overlay = NoOverlay
  /\ cachedPlayerColor = NoCache
  /\ hist = InitHist(page)

\* bookkeeping of one call of onBoardChange made while ts were pending
NoteCall(h, ts, p) ==
  IF Pending(ts, "debounce") # {}
  THEN [h EXCEPT !.notifs = @ + 1]
  ELSE [h EXCEPT !.owed = @ + 1, !.notifs = 1, !.firstPage = p]

Min(a, b) == IF a < b THEN a ELSE b

(***************************************************************************)
(* The page changes inside the observed board or move list (or an          *)
(* attribute changes and the page shows the same): the MutationObserver    *)
(* calls onBoardChange.                                                    *)
(***************************************************************************)
BoardMutation(sc) ==
  /\ Pending(timers, "debounce") # {} => hist.notifs < MaxBurst
  /\ page' = OnLayout(sc, page.layout)
  /\ timers' = onBoardChange(timers, debounceTimer, now)
  /\ debounceTimer' = now + DEBOUNCE_MS
  /\ hist' = NoteCall(hist, timers, page')
  /\ wire' = <<>>
  /\ UNCHANGED <<now, lastSent, ws, currentGame, currentVariant>>
  /\ UNCHANGED fenVars

\* the Force Sync button is clicked: the handler calls onBoardChange
ForceSync ==
  /\ Pending(timers, "debounce") # {} => hist.notifs < MaxBurst
  /\ timers' = onBoardChange(timers, debounceTimer, now)
  /\ debounceTimer' = now + DEBOUNCE_MS
  /\ hist' = [NoteCall(hist, timers, page) EXCEPT !.forced = "asked"]
  /\ wire' = <<>>
  /\ UNCHANGED <<page, now, lastSent, ws, currentGame, currentVariant>>
  /\ UNCHANGED fenVars

\* time passes
Tick(d) ==
  /\ hist.ticks < MaxTicks
  /\ now' = now + d
  /\ hist' = [hist EXCEPT !.ticks = @ + 1]
  /\ wire' = <<>>
  /\ UNCHANGED <<page, lastSent, ws, debounceTimer, timers, currentGame,
                 currentVariant>>
  /\ UNCHANGED fenVars

(***************************************************************************)
(* The debounce timer fires: the callback of onBoardChange runs.           *)
(***************************************************************************)
DebounceFire(i) ==
  /\ i \in Pending(timers, "debounce")
  /\ timers[i].due <= now
  /\ \E r \in {extractBoardData(DebounceRead(page, hist.firstPage),
                                currentGame, currentVariant, ws, now)} :
       LET fired == IF debounceTimer = timers[i].due THEN FiredTimer
                    ELSE debounceTimer
           rest == RemoveAt(timers, i)
           send == ~r.isNull /\ isChanged(r, lastSent)
           h1 == [hist EXCEPT
                    !.owed = @ - 1, !.cycled = TRUE, !.firePage = page,
                    !.seenPage = DebounceRead(page, hist.firstPage),
                    !.triple = IF r.isNull THEN @ ELSE Triple(r),
                    !.repeat = IF r.isNull THEN "none"
                               ELSE (IF Triple(r) = hist.triple THEN "same"
                                     ELSE "new")
                                    \o (IF send THEN "-sent" ELSE "-silent"),
                    !.offlineId = IF r.sent # <<>> /\ ws # "OPEN"
                                  THEN r.game.id ELSE @,
                    !.forced = IF @ = "asked" THEN "served" ELSE "no"]
       IN /\ currentVariant' = r.variant
          /\ currentGame' = r.game
          /\ timers' = IF r.rearmed THEN onBoardChange(rest, fired, now) ELSE rest
          /\ debounceTimer' = IF r.rearmed THEN now + DEBOUNCE_MS ELSE fired
          /\ hist' = IF r.rearmed THEN NoteCall(h1, rest, page) ELSE h1
          /\ wire' = r.sent \o (IF send THEN sendBoardData(BoardData(r, now), ws)
                                ELSE <<>>)
          /\ lastSent' = IF send
                         THEN [pieces |-> JSON_parse(JSON_stringify(r.pieces)),
                               moveList |-> r.moveList, variant |-> r.variant]
                         ELSE lastSent
  /\ UNCHANGED <<page, now, ws>>
  /\ UNCHANGED fenVars

(***************************************************************************)
(* BoardSync: the WebSocket.                                               *)
(***************************************************************************)
\* ws.onopen: announce the current game and force a board update
WsOpen ==
  /\ ws = "CONNECTING"
  /\ Pending(timers, "debounce") # {} => hist.notifs < MaxBurst
  /\ ws' = "OPEN"
  /\ IF currentGame.id # NoId
     THEN /\ wire' = sendNewGameNotification(currentGame, "OPEN", now)
          /\ timers' = onBoardChange(timers, debounceTimer, now)
          /\ debounceTimer' = now + DEBOUNCE_MS
          /\ hist' = NoteCall(hist, timers, page)
     ELSE /\ wire' = <<>>
          /\ UNCHANGED <<timers, debounceTimer, hist>>
  /\ UNCHANGED <<page, now, lastSent, currentGame, currentVariant>>
  /\ UNCHANGED fenVars

\* ws.onclose: setTimeout(connectWebSocket, 5000)
WsClose ==
  /\ ws \in {"CONNECTING", "OPEN"}
  /\ ws' = "CLOSED"
  /\ timers' = Append(timers, [kind |-> "reconnect", due |-> now + RECONNECT_MS])
  /\ wire' = <<>>
  /\ UNCHANGED <<page, now, lastSent, debounceTimer, currentGame,
                 currentVariant, hist>>
  /\ UNCHANGED fenVars

\* connectWebSocket, from the reconnect timer: the old socket is closed
\* with its onclose handler removed and a new one is created
ReconnectFire(i) ==
  /\ i \in Pending(timers, "reconnect")
  /\ timers[i].due <= now
  /\ timers' = RemoveAt(timers, i)
  /\ ws' = "CONNECTING"
  /\ wire' = <<>>
  /\ UNCHANGED <<page, now, lastSent, debounceTimer, currentGame,
                 currentVariant, hist>>
  /\ UNCHANGED fenVars

Next ==
  \/ \E sc \in Scenes : BoardMutation(sc)
  \/ \E d \in {ShortTick, RECONNECT_MS} : Tick(d)
  \/ \E i \in 1..Len(timers) : DebounceFire(i)
  \/ WsOpen
  \/ WsClose
  \/ \E i \in 1..Len(timers) : ReconnectFire(i)
  \/ ForceSync

Spec == Init /\ [][Next]_vars

(***************************************************************************)
(* BoardSync: properties of Spec.                                          *)
(***************************************************************************)
\* C1: when two consecutive passes of the debounce callback produce the
\* same (pieces, moveList, variant), the first of them transmits a board
\* update and the second transmits none.
C1_SameTripleSentOnce == hist.repeat \notin {"same-sent", "new-silent"}

\* C2: every window of calls of onBoardChange gets one pass of the
\* callback: at most one debounce timer is pending, and the passes still
\* owed are exactly the pending timers, however many calls the window holds.
C2_OneCyclePerWindow ==
  /\ hist.owed \in {0, 1}
  /\ Cardinality(Pending(timers, "debounce")) = hist.owed

\* a window of five calls has had its pass
C2_FiveCallsOneCycle == hist.cycled /\ hist.owed = 0 /\ hist.notifs = 5

\* C3: a pass of the debounce callback reads the document as it is when the
\* timer fires, not as it was at the first call of the window.
C3_ReadsPageAtFire == hist.cycled => hist.seenPage = hist.firePage

\* a pass ran after the document changed within its window
C3_PageChangedInWindow ==
  /\ hist.cycled /\ hist.owed = 0 /\ hist.notifs > 1
  /\ hist.firePage # hist.firstPage
  /\ hist.seenPage = page

\* the attempts that announce a game, and those that carry a board update
IsNewGame(a) ==
  \/ a.via = "ws" /\ a.type = "new_game"
  \/ a.via = "http" /\ a.endpoint = "/fen/new_game"

IsBoardUpdate(a) ==
  \/ a.via = "ws" /\ a.type = "board_update"
  \/ a.via = "http" /\ a.endpoint = "/fen"

\* C9: a pass in which detectNewGame answers true replaces currentGame by a
\* session with a new id and sends one message made of type, gameId,
\* variant, startPosition and timestamp, which the receiver tells from a
\* board update by its type (WebSocket) or its endpoint (HTTP).
C9_StartNewAnnounced ==
  [][(/\ \E i \in 1..Len(timers) : DebounceFire(i)
      /\ detectNewGame(currentGame, extractPieces(page), extractMoveList(page),
                       extractGameIdFromUrl(page), now))
     => /\ currentGame'.id # currentGame.id
        /\ currentGame'.startPosition = extractPieces(page)
        /\ currentGame'.moveList = extractMoveList(page)
        /\ \E i \in 1..Len(wire') :
             /\ IsNewGame(wire'[i]) /\ ~IsBoardUpdate(wire'[i])
             /\ wire'[i].body =
                  [type |-> "new_game", gameId |-> currentGame'.id,
                   startPosition |-> JSON_stringify(currentGame'.startPosition),
                   variant |-> currentGame'.variant, timestamp |-> now]
             /\ \A j \in 1..Len(wire') : j # i => ~IsNewGame(wire'[j])]_vars

\* a pass has started a session and sent both the announcement and the
\* board update
C9_GameAnnounced ==
  /\ Len(wire) = 2
  /\ IsNewGame(wire[1]) /\ IsBoardUpdate(wire[2])
  /\ wire[1].body.gameId = currentGame.id
  /\ wire[1].body.timestamp = currentGame.id
  /\ currentGame.id > DEBOUNCE_MS

\* C10: what a handler sends it sends once, over the WebSocket when that
\* is open and else by one HTTP request, and a message that went out by
\* HTTP while the socket was not open is not sent again once it is open.
C10_OnceOverOneTransport ==
  /\ \A i \in 1..Len(wire) : wire[i].via = IF ws = "OPEN" THEN "ws" ELSE "http"
  /\ \A i, j \in 1..Len(wire) : i # j => wire[i].body # wire[j].body
  /\ \A i \in 1..Len(wire) :
       wire[i].via = "ws" /\ IsNewGame(wire[i])
         => wire[i].body.gameId # hist.offlineId

\* C13: the pass that follows a click on the manual button and extracts a
\* state transmits it, also when it is the state transmitted before.
C13_ForcedPassTransmits ==
  hist.cycled /\ hist.forced = "served" /\ hist.repeat # "none"
    => hist.repeat \in {"same-sent", "new-sent"}

\* C27: a new-game message announces a session created by the step that
\* sends it: the session that was current before the step, which
\* startNewGame announced when it created it, is not announced again, also
\* not when the socket opens.
C27_AnnouncedOnce ==
  [][\A i \in 1..Len(wire') :
       IsNewGame(wire'[i]) => wire'[i].body.gameId # currentGame.id]_vars

(***************************************************************************)
(* BoardSync with its timers run to completion.  The page, the user and    *)
(* the server act during the first MaxLiveTicks clock steps only; the      *)
(* clock goes to the moment the next timer is due, and every timer that is *)
(* due runs, so that a behaviour ends with no timer pending.               *)
(***************************************************************************)
MaxLiveTicks == 2

\* the times at which a pass can start a session: the page changes before
\* the clock has made MaxLiveTicks steps, and a pass re-arms the timer once
GameIds == {a * DEBOUNCE_MS : a \in 1..(MaxLiveTicks + 1)}

EnvironmentActs == hist.ticks < MaxLiveTicks

LiveTick ==
  /\ timers # <<>>
  /\ \A i \in 1..Len(timers) : timers[i].due > now
  /\ \E i \in 1..Len(timers) :
       /\ \A j \in 1..Len(timers) : timers[i].due <= timers[j].due
       /\ now' = timers[i].due
  /\ hist' = [hist EXCEPT !.ticks = @ + 1]
  /\ wire' = <<>>
  /\ UNCHANGED <<page, lastSent, ws, debounceTimer, timers, currentGame,
                 currentVariant>>
  /\ UNCHANGED fenVars

LiveDebounce == \E i \in 1..Len(timers) : DebounceFire(i)

LiveReconnect == \E i \in 1..Len(timers) : ReconnectFire(i)

NextLive ==
  \/ EnvironmentActs /\ \E sc \in Scenes : BoardMutation(sc)
  \/ EnvironmentActs /\ WsClose
  \/ EnvironmentActs /\ ForceSync
  \/ WsOpen
  \/ LiveTick
  \/ LiveDebounce
  \/ LiveReconnect

\* the debounce callback is due to run
DebounceDue == \E i \in Pending(timers, "debounce") : timers[i].due <= now

\* setTimeout: time passes and a callback that is due is run.  LiveDebounce
\* is enabled exactly when DebounceDue holds and every step of it ends
\* DebounceDue, so that []<>~DebounceDue is WF_vars(LiveDebounce)
SpecLive ==
  /\ Init
  /\ [][NextLive]_vars
  /\ WF_vars(LiveTick) /\ WF_vars(LiveReconnect) /\ []<>~DebounceDue

Announced(g) ==
  \E i \in 1..Len(wire) : IsNewGame(wire[i]) /\ wire[i].body.gameId = g

Updated(g) ==
  \E i \in 1..Len(wire) :
    IsBoardUpdate(wire[i]) /\ ~IsNewGame(wire[i]) /\ wire[i].body.gameId = g

\* C26: a step that sends the new-game message of a session is followed,
\* in the same step or later, by a step that sends a board update with the
\* id of that session.
C26_UpdateFollowsAnnouncement ==
  \A g \in GameIds : [](Announced(g) => <>Updated(g))

\* C30: the debounce callback arms no timer: when it has run, no cycle
\* is scheduled, whatever it wrote while it ran.
C30_PassSchedulesNoPass ==
  [][DebounceDue /\ now' = now /\ page' = page /\ ws' = ws /\ LiveDebounce
       => Pending(timers', "debounce") = {}]_vars

(***************************************************************************)
(* BoardSync: the session tracker on its own.  Each step is one pass of    *)
(* extractBoardData over a document chosen freely, so that sessions with   *)
(* long move lists meet every candidate.                                   *)
(***************************************************************************)
TrackerLens == {0, 1, 2, 5, 6, LongGame}

TrackerPages ==
  {OnLayout(Scene(pos, "fwd", line, n, "g1", "standard"), "WC_BOARD") :
     pos \in {"start", "sparse"}, line \in {"A", "B"}, n \in TrackerLens}

InitTracker ==
  /\ page = OnLayout(FirstScene, "WC_BOARD")
  /\ now = 0
  /\ lastSent = [pieces |-> EmptyObject, moveList |-> <<>>, variant |-> ""]
  /\ ws = "CLOSED"
  /\ debounceTimer = NoTimer
  /\ timers = <<>>
  /\ currentGame = NoGame
  /\ currentVariant = "standard"
  /\ wire = <<>>
  /\ currentFen = <<>>
  /\ ret = NoRet
  /\ net = NoNet
  /\ overlay = NoOverlay
  /\ cachedPlayerColor = NoCache
  /\ hist = InitHist(page)

TrackerObserve(p) ==
  /\ \E r \in {extractBoardData(p, currentGame, currentVariant, ws, now)} :
       /\ currentGame' = r.game
       /\ currentVariant' = r.variant
       /\ wire' = r.sent
       /\ ret' = [fn |-> "detectNewGame",
                  recorded |-> Len(currentGame.moveList),
                  candidate |-> Len(r.moveList),
                  val |-> r.signal # "none"]
  /\ page' = p
  /\ UNCHANGED <<now, lastSent, ws, debounceTimer, timers, currentFen, hist>>
  /\ UNCHANGED <<net, overlay, cachedPlayerColor>>

NextTracker ==
  \/ \E p \in TrackerPages : TrackerObserve(p)
  \/ \E d \in {ShortTick, IDLE_MS + 1} : Tick(d)

SpecTracker == InitTracker /\ [][NextTracker]_vars

\* C8: a session that has recorded more than 5 moves and meets a move list
\* of fewer than 2 entries is classified as a new game.
C8_ShrunkListStartsNew ==
  ret.fn = "detectNewGame" /\ ret.recorded > 5 /\ ret.candidate < 2 => ret.val

\* a session of 40 recorded moves met an empty move list
C8_FortyThenEmpty ==
  ret.fn = "detectNewGame" /\ ret.recorded = 40 /\ ret.candidate = 0 /\ ret.val

\* the move list b begins with the move list a
IsPrefix(a, b) == Len(a) <= Len(b) /\ SubSeq(b, 1, Len(a)) = a

\* the document p continues the session game at time t: same game id in
\* the URL, a move list that extends the recorded one, no idle period
Continues(game, p, t) ==
  /\ game.id # NoId
  /\ extractGameIdFromUrl(p) = game.gameIdFromUrl
  /\ IsPrefix(game.moveList, extractMoveList(p))
  /\ t - game.lastUpdated <= IDLE_MS

\* C23: a pass over a document that continues the current session keeps
\* the session (same id, same start position) and sends no new-game
\* message, whatever position the document shows.
C23_ContinuingGameContinues ==
  [][Continues(currentGame, page', now) /\ ret'.fn = "detectNewGame"
       => /\ wire' = <<>>
          /\ currentGame'.id = currentGame.id
          /\ currentGame'.startPosition = currentGame.startPosition]_vars

\* C28: the session made by a pass that answered "new game" has the
\* candidate position as its start position and an empty move list.
C28_FreshSessionEmptyList ==
  ret.fn = "detectNewGame" /\ ret.val
    => /\ currentGame.startPosition = extractPieces(page)
       /\ currentGame.moveList = <<>>

\* the squares occupied in the position a or in the position b, and those
\* of them on which the two positions differ
OccupiedSquares(a, b) ==
  {a.keys[i] : i \in 1..Len(a.keys)} \cup {b.keys[i] : i \in 1..Len(b.keys)}

DifferingSquares(a, b) == {k \in OccupiedSquares(a, b) : Get(a, k) # Get(b, k)}

\* C35: a pass that meets a session, a move list of at most 2 entries and a
\* position that differs from the start position of the session on more
\* than half of the occupied squares answers "new game".
C35_ChangedPositionStartsNew ==
  [][/\ now' = now /\ ret'.fn = "detectNewGame" /\ currentGame.id # NoId
     /\ Len(extractMoveList(page')) <= 2
     /\ 2 * Cardinality(DifferingSquares(currentGame.startPosition,
                                         extractPieces(page')))
          > Cardinality(OccupiedSquares(currentGame.startPosition,
                                        extractPieces(page')))
     => ret'.val]_vars

(***************************************************************************)
(* BoardSync: the session tracker met by games that share an opening, and  *)
(* by passes that are 15 minutes apart.  ret keeps what detectNewGame was  *)
(* called with: the session as it was, the move list read, the time.       *)
(***************************************************************************)
FIRST_MOVES == 5

SignalLens == {0, FIRST_MOVES, FIRST_MOVES + 1}

SignalPages ==
  {OnLayout(Scene("start", "fwd", line, n, "g1", "standard"), "WC_BOARD") :
     line \in {"A", "B", "C"}, n \in SignalLens}

SignalObserve(p) ==
  /\ \E r \in {extractBoardData(p, currentGame, currentVariant, ws, now)} :
       /\ currentGame' = r.game
       /\ currentVariant' = r.variant
       /\ wire' = r.sent
       /\ ret' = [fn |-> "detectNewGame", session |-> currentGame,
                  candidate |-> r.moveList, at |-> now,
                  signal |-> r.signal, val |-> r.signal # "none"]
  /\ page' = p
  /\ UNCHANGED <<now, lastSent, ws, debounceTimer, timers, currentFen, hist>>
  /\ UNCHANGED <<net, overlay, cachedPlayerColor>>

NextSignals ==
  \/ \E p \in SignalPages : SignalObserve(p)
  \/ \E d \in {ShortTick, IDLE_MS, IDLE_MS + 1} : Tick(d)

SpecSignals == InitTracker /\ [][NextSignals]_vars

\* the positions among the first FIRST_MOVES that both lists have
FirstFew(a, b) == {i \in 1..FIRST_MOVES : i <= Len(a) /\ i <= Len(b)}

DivergeCompletely(a, b) ==
  FirstFew(a, b) # {} /\ \A i \in FirstFew(a, b) : a[i] # b[i]

AgreeSomewhere(a, b) == \E i \in FirstFew(a, b) : a[i] = b[i]

\* C36: when the session has recorded more than FIRST_MOVES moves, a
\* candidate whose first moves all differ from the recorded ones is
\* answered "new game", and the check of the first moves does not answer
\* for a candidate that has one of its first moves in common with the
\* session.
C36_FirstMovesDivergeCompletely ==
  ret.fn = "detectNewGame" /\ ret.session.id # NoId
    /\ Len(ret.session.moveList) > FIRST_MOVES
    => /\ DivergeCompletely(ret.session.moveList, ret.candidate) => ret.val
       /\ AgreeSomewhere(ret.session.moveList, ret.candidate)
            => ret.signal # "firstMoves"

\* C37: a pass more than 15 minutes after the last update of the session
\* answers "new game"; a pass within 15 minutes is not answered by the
\* idle check; every pass leaves the session updated at its own time.
C37_IdleStartsNew ==
  ret.fn = "detectNewGame"
    => /\ currentGame.lastUpdated = ret.at
       /\ ret.session.id # NoId
            => /\ ret.at - ret.session.lastUpdated > IDLE_MS => ret.val
               /\ ret.signal = "idle"
                    => ret.at - ret.session.lastUpdated > IDLE_MS

\* a pass over the unchanged document of a session last updated more than
\* 15 minutes ago, answered by the idle check
C37_IdleAnswered ==
  /\ ret.fn = "detectNewGame" /\ ret.session.id # NoId
  /\ ret.signal = "idle" /\ ret.val
  /\ ret.candidate = ret.session.moveList
  /\ ret.at - ret.session.lastUpdated = IDLE_MS + 1

(***************************************************************************)
(* FEN sender: the document as this script reads it.  Beyond the fields of *)
(* a BoardSync page, a page carries                                        *)
(*   orientAttr      the orientation attribute of the board element        *)
(*   boardClass      "flipped" | "black-perspective" | Null on the board   *)
(*   containerClass  the same on the enclosing container                   *)
(*   labels          which way the rank labels of a LIVE_BOARD run         *)
(*   legible         FALSE when no piece can be decoded: the board of a    *)
(*                   LIVE_BOARD has no size, the pieces of a WC_BOARD      *)
(*                   carry no colour/type class                            *)
(*   vm              what violent_monkey.js looks at besides               *)
(* A LIVE_BOARD piece carries data-piece (the type letter) and data-color  *)
(* ("5" white, "6" black).                                                 *)
(***************************************************************************)
NoVm == [clock |-> "none", tag |-> "none", fileALow |-> FALSE,
         perspective |-> "none", avatar |-> FALSE]

FenPage(layout, pos, flipped, n, orientAttr, boardClass, containerClass, labels, legible, vm) ==
  [layout |-> layout, pos |-> pos, order |-> "fwd", flipped |-> flipped,
   line |-> "A", n |-> n, gameUrl |-> "g1", variantHint |-> "standard",
   orientAttr |-> orientAttr, boardClass |-> boardClass,
   containerClass |-> containerClass, labels |-> labels,
   legible |-> legible, vm |-> vm]

FenPieceElement(p, c) ==
  LET pc == PositionOf(p.pos)[c]
      cell == VisualCell(c, p.flipped)
  IN IF p.layout = "WC_BOARD"
     THEN [squareClass |-> c,
           pieceClass |-> IF p.legible
                          THEN <<ColourOf(pc), toLowerCase(KindOf(pc))>>
                          ELSE NoAttr,
           dataPiece |-> NoAttr, dataColor |-> Null,
           tx |-> 0, ty |-> 0]
     ELSE [squareClass |-> NoSquareClass, pieceClass |-> NoAttr,
           dataPiece |-> <<KindOf(pc)>>,
           dataColor |-> IF ColourOf(pc) = "w" THEN "5" ELSE "6",
           tx |-> cell[1] * SquarePx, ty |-> cell[2] * SquarePx]

FenPieceElements(p) ==
  LET cs == OccupiedCoords(PositionOf(p.pos))
      inOrder == IF p.order = "rev" THEN Reverse(cs) ELSE cs
  IN [i \in 1..Len(inOrder) |-> FenPieceElement(p, inOrder[i])]

\* getBoardDimensions().squareSize, 0 standing for "no dimensions"
squareSizeOf(p) == IF p.legible THEN SquarePx ELSE 0

\* the y attribute of the label of rank 1 and of rank 8 (NoY: no label)
NoY == -1
rank1Y(p) == CASE p.labels = "whiteBottom" -> 8 * SquarePx
               [] p.labels = "blackBottom" -> SquarePx
               [] OTHER -> NoY
rank8Y(p) == CASE p.labels = "whiteBottom" -> SquarePx
               [] p.labels = "blackBottom" -> 8 * SquarePx
               [] OTHER -> NoY

(***************************************************************************)
(* FEN sender: perspective.                                                *)
(***************************************************************************)
\* the LIVE_BOARD coordinate check on its own: "black", "white" or "none"
coordinateFallback(p) ==
  IF p.layout = "LIVE_BOARD" /\ rank1Y(p) # NoY /\ rank8Y(p) # NoY
  THEN IF rank1Y(p) < rank8Y(p) THEN "black"
       ELSE IF rank1Y(p) > rank8Y(p) THEN "white" ELSE "none"
  ELSE "none"

\* a variant that lets the coordinate check speak before the board element
determinePlayerColorGeometryFirst(p) ==
  IF coordinateFallback(p) # "none" THEN coordinateFallback(p) = "black"
  ELSE IF p.orientAttr = "black" THEN TRUE
  ELSE IF p.orientAttr = "white" THEN FALSE
  ELSE p.boardClass \in {"flipped", "black-perspective"}
       \/ p.containerClass \in {"flipped", "black-perspective"}

\* a variant that reads the coordinate check the other way round
determinePlayerColorLabelsInverted(p) ==
  IF p.orientAttr = "black" THEN TRUE
  ELSE IF p.orientAttr = "white" THEN FALSE
  ELSE IF p.boardClass \in {"flipped", "black-perspective"} THEN TRUE
  ELSE IF p.containerClass \in {"flipped", "black-perspective"} THEN TRUE
  ELSE coordinateFallback(p) = "white"

\* playingAsBlack
determinePlayerColor(p) ==
  IF p.orientAttr = "black" THEN TRUE
  ELSE IF p.orientAttr = "white" THEN FALSE
  ELSE IF p.boardClass \in {"flipped", "black-perspective"} THEN TRUE
  ELSE IF p.containerClass \in {"flipped", "black-perspective"} THEN TRUE
  ELSE coordinateFallback(p) = "black"

(***************************************************************************)
(* violent_monkey.js: perspective.  The pair <<playingAsBlack,             *)
(* confidenceScore>> is threaded through the steps in the order of the     *)
(* code.  cachedPlayerColor is <<>> for null and <<b>> for the boolean b.  *)
(***************************************************************************)
VM_BOTTOM_Y == 600
VM_TOP_Y == 200

vm_pieces(p) ==
  LET els == FenPieceElements(p)
      bottom(el) == el.ty > VM_BOTTOM_Y
      top(el) == ~(el.ty > VM_BOTTOM_Y) /\ el.ty < VM_TOP_Y
      blackBottom(el) == bottom(el) /\ el.dataColor = "6"
      whiteBottom(el) == bottom(el) /\ el.dataColor = "5"
      blackTop(el) == top(el) /\ el.dataColor = "6"
      whiteTop(el) == top(el) /\ el.dataColor = "5"
      ix == 1..Len(els)
  IN [bottom |-> Cardinality({i \in ix : bottom(els[i])}),
      top |-> Cardinality({i \in ix : top(els[i])}),
      blackBottom |-> Cardinality({i \in ix : blackBottom(els[i])}),
      whiteBottom |-> Cardinality({i \in ix : whiteBottom(els[i])}),
      blackTop |-> Cardinality({i \in ix : blackTop(els[i])}),
      whiteTop |-> Cardinality({i \in ix : whiteTop(els[i])})]

vm_byPieces(k) ==
  IF k.bottom >= 8 /\ k.blackBottom > k.whiteBottom THEN <<TRUE, 3>>
  ELSE IF k.bottom >= 8 /\ k.whiteBottom > k.blackBottom THEN <<FALSE, 3>>
  ELSE <<FALSE, 0>>

vm_byLabels(p, s) ==
  IF p.vm.fileALow THEN <<TRUE, IF s[1] THEN s[2] + 1 ELSE s[2] - 1>> ELSE s

vm_byClock(p, s) ==
  IF p.vm.clock = "none" THEN s
  ELSE LET clockIndicatesBlack == p.vm.clock = "dark"
       IN IF clockIndicatesBlack # s[1] /\ s[2] > 0 THEN s
          ELSE <<clockIndicatesBlack, s[2] + 2>>

vm_byTag(p, s) ==
  CASE p.vm.tag = "black" -> IF ~s[1] /\ s[2] > 1 THEN s ELSE <<TRUE, s[2] + 1>>
    [] p.vm.tag = "white" -> IF s[1] /\ s[2] > 1 THEN s ELSE <<FALSE, s[2] + 1>>
    [] OTHER -> s

vm_byTopPieces(k, s) ==
  IF k.top >= 8 /\ k.bottom >= 8
     /\ 2 * (IF s[1] THEN k.whiteTop ELSE k.blackTop) < k.top
  THEN <<~s[1], s[2]>> ELSE s

vm_byContainer(p, s) ==
  CASE p.vm.perspective = "black" -> <<TRUE, 10>>
    [] p.vm.perspective = "white" -> <<FALSE, 10>>
    [] OTHER -> s

vm_byAvatar(p, s) == IF s[2] = 0 /\ p.vm.avatar THEN <<TRUE, s[2]>> ELSE s

vm_determinePlayerColor(p, cached) ==
  IF cached # NoCache THEN cached[1]
  ELSE LET k == vm_pieces(p)
       IN vm_byAvatar(p,
            vm_byContainer(p,
              vm_byTopPieces(k,
                vm_byTag(p, vm_byClock(p, vm_byLabels(p, vm_byPieces(k)))))))[1]

(***************************************************************************)
(* Numbers as text.                                                        *)
(***************************************************************************)
DigitCh == <<"0", "1", "2", "3", "4", "5", "6", "7", "8", "9">>

\* String(n) for 0 <= n < 100, as the sequence of its characters
String(n) ==
  IF n < 10 THEN <<DigitCh[n + 1]>>
  ELSE <<DigitCh[(n \div 10) + 1], DigitCh[(n % 10) + 1]>>

NaN == -1
IsDigit(ch) == \E d \in 1..10 : DigitCh[d] = ch
DigitVal(ch) == (CHOOSE d \in 1..10 : DigitCh[d] = ch) - 1

\* parseInt(text, 10): the leading digits of text, NaN when there are none
RECURSIVE parseIntFrom(_, _, _)
parseIntFrom(text, i, acc) ==
  IF i > Len(text) \/ ~IsDigit(text[i]) THEN acc
  ELSE parseIntFrom(text, i + 1, 10 * acc + DigitVal(text[i]))

parseInt(text) ==
  IF Len(text) = 0 \/ ~IsDigit(text[1]) THEN NaN ELSE parseIntFrom(text, 1, 0)

(***************************************************************************)
(* The move list as the FEN scripts read it: one row per full move, with   *)
(* its number ("7" in data-whole-move-number, "7." as text); the last      *)
(* half-move played is the one highlighted.                                *)
(***************************************************************************)
moveRowCount(p) == (p.n + 1) \div 2

\* the number text of the last row
lastMoveNumberText(p) ==
  IF p.layout = "WC_BOARD" THEN String(moveRowCount(p))
  ELSE String(moveRowCount(p)) \o <<".">>

\* text.replace(/\.$/, '')
dropFinalDot(text) ==
  IF Len(text) > 0 /\ text[Len(text)] = "." THEN SubSeq(text, 1, Len(text) - 1)
  ELSE text

\* FEN sender determineActiveColor, no manual override: the highlighted
\* move tells whose turn it is, and without one White is to move
determineActiveColor(p) ==
  IF p.n = 0 THEN "w" ELSE IF p.n % 2 = 1 THEN "b" ELSE "w"

\* FEN sender determineMoveNumber
determineMoveNumber(p) ==
  LET parsedNr == IF moveRowCount(p) > 0
                  THEN parseInt(dropFinalDot(lastMoveNumberText(p))) ELSE NaN
      moveNr == IF parsedNr # NaN THEN parsedNr ELSE 1
  IN IF determineActiveColor(p) = "w" THEN String(moveNr + 1) ELSE String(moveNr)

\* violent_monkey.js determineMoveNumber: both branches give the number shown
vm_determineMoveNumber(p) ==
  IF moveRowCount(p) > 0
  THEN LET moveNr == parseInt(dropFinalDot(lastMoveNumberText(p)))
       IN IF moveNr # NaN THEN String(moveNr) ELSE <<"1">>
  ELSE <<"1">>

\* the fullmove field reconstructFENFromPieces writes
reconstructFullmove(moveList) == String((Len(moveList) \div 2) + 1)

(***************************************************************************)
(* FEN sender: generateFEN.  A square name is the sequence of its two      *)
(* characters; NoSquare stands for null.                                   *)
(***************************************************************************)
NoSquare == <<>>

SquareName(f, r) == <<Files[f], RankCh[r]>>

getSquareFromWcPiece(el) ==
  IF el.squareClass # NoSquareClass
     /\ el.squareClass[1] \in 1..8 /\ el.squareClass[2] \in 1..8
  THEN SquareName(el.squareClass[1], el.squareClass[2])
  ELSE NoSquare

mapCoordsToSquare(layout, x, y, squareSize, playingAsBlack) ==
  IF layout # "LIVE_BOARD" \/ squareSize <= 0 THEN NoSquare
  ELSE LET fileIndexFromLeft == x \div squareSize
           rankIndexFromTop == y \div squareSize
       IN IF fileIndexFromLeft < 0 \/ fileIndexFromLeft > 7
             \/ rankIndexFromTop < 0 \/ rankIndexFromTop > 7
          THEN NoSquare
          ELSE SquareName(
                 (IF playingAsBlack THEN 7 - fileIndexFromLeft
                  ELSE fileIndexFromLeft) + 1,
                 IF playingAsBlack THEN rankIndexFromTop + 1
                 ELSE 8 - rankIndexFromTop)

\* <<square, fenChar>> of one piece element, either of them possibly null
NoChar == ""

placePiece(p, el, playingAsBlack) ==
  IF p.layout = "WC_BOARD"
  THEN IF getSquareFromWcPiece(el) # NoSquare /\ el.pieceClass # NoAttr
       THEN <<getSquareFromWcPiece(el),
              IF el.pieceClass[1] = "w" THEN toUpperCase(el.pieceClass[2])
              ELSE toLowerCase(el.pieceClass[2])>>
       ELSE <<NoSquare, NoChar>>
  ELSE IF el.dataPiece # NoAttr /\ el.dataColor \in {"5", "6"}
          /\ squareSizeOf(p) > 0
       THEN LET square == mapCoordsToSquare(p.layout, el.tx, el.ty,
                                            squareSizeOf(p), playingAsBlack)
            IN IF square # NoSquare
               THEN <<square, IF el.dataColor = "5" THEN toUpperCase(el.dataPiece[1])
                              ELSE toLowerCase(el.dataPiece[1])>>
               ELSE <<NoSquare, NoChar>>
       ELSE <<NoSquare, NoChar>>

\* square.charCodeAt(0) - 'a'.charCodeAt(0) and 8 - parseInt(square[1], 10)
fileIndexOf(square) == (CHOOSE f \in 1..8 : Files[f] = square[1]) - 1
fenRankIndexOf(square) == 8 - parseInt(<<square[2]>>)

\* where one piece element is written and what: <<fenRankIndex, fileIndex,
\* fenChar>>, or NoCell when the element is skipped
NoCell == <<8, 8, NoChar>>

placeCell(p, el, playingAsBlack) ==
  LET sc == Only({placePiece(p, el, playingAsBlack)})
  IN IF sc[1] # NoSquare /\ sc[2] # NoChar
        /\ fenRankIndexOf(sc[1]) \in 0..7 /\ fileIndexOf(sc[1]) \in 0..7
     THEN <<fenRankIndexOf(sc[1]), fileIndexOf(sc[1]), sc[2]>>
     ELSE NoCell

\* the 8x8 array after the loop: a cell keeps the first character written
\* to it.  board[r][f], r = 0 for rank 8.
boardOf(placed) ==
  [r \in 0..7 |-> [f \in 0..7 |->
     LET hits == {i \in 1..Len(placed) : placed[i][1] = r /\ placed[i][2] = f}
     IN IF hits = {} THEN NoChar
        ELSE placed[CHOOSE i \in hits : \A j \in hits : i <= j][3]]]

fenBoard(p, playingAsBlack) ==
  Only({boardOf(placed) :
          placed \in {[i \in 1..Len(els) |-> placeCell(p, els[i], playingAsBlack)] :
                        els \in {FenPieceElements(p)}}})

pieceCountOf(board) ==
  Cardinality({c \in (0..7) \X (0..7) : board[c[1]][c[2]] # NoChar})

\* one rank of the piece placement, from file f on, after emptyCount empty
\* squares
RECURSIVE fenRowFrom(_, _, _)
fenRowFrom(row, f, emptyCount) ==
  LET gap == IF emptyCount > 0 THEN DigitCh[emptyCount + 1] ELSE ""
  IN IF f > 7 THEN gap
     ELSE IF row[f] # NoChar THEN gap \o row[f] \o fenRowFrom(row, f + 1, 0)
     ELSE fenRowFrom(row, f + 1, emptyCount + 1)

fenPiecePlacement(board) ==
  fenRowFrom(board[0], 0, 0) \o "/" \o fenRowFrom(board[1], 0, 0) \o "/"
  \o fenRowFrom(board[2], 0, 0) \o "/" \o fenRowFrom(board[3], 0, 0) \o "/"
  \o fenRowFrom(board[4], 0, 0) \o "/" \o fenRowFrom(board[5], 0, 0) \o "/"
  \o fenRowFrom(board[6], 0, 0) \o "/" \o fenRowFrom(board[7], 0, 0)

\* a variant without the check of pieceCount
generateFENNoGuard(p) ==
  Only({<<fenPiecePlacement(board), determineActiveColor(p), "-", "-", "0",
          determineMoveNumber(p)>> :
          board \in {fenBoard(p, determinePlayerColor(p))}})

generateFEN(p) ==
  Only({IF pieceCountOf(board) = 0 /\ Len(FenPieceElements(p)) > 0 THEN NoFen
        ELSE <<fenPiecePlacement(board), determineActiveColor(p), "-", "-", "0",
               determineMoveNumber(p)>> :
          board \in {fenBoard(p, determinePlayerColor(p))}})

(***************************************************************************)
(* The pure functions, applied to documents drawn from three families:     *)
(* move lists of every length, every combination of the orientation marks  *)
(* the FEN sender reads, and every combination of the marks                 *)
(* violent_monkey.js reads.                                                *)
(***************************************************************************)
Marks == {Null, "flipped"}

PurePages ==
  {FenPage(l, "start", FALSE, n, Null, Null, Null, "none", TRUE, NoVm) :
     l \in {"WC_BOARD", "LIVE_BOARD"}, n \in 0..MaxMoves}
  \cup
  {FenPage(l, pos, fl, 0, oa, bc, Null, lb, TRUE, NoVm) :
     l \in {"WC_BOARD", "LIVE_BOARD"}, pos \in {"start", "e4"},
     fl \in BOOLEAN, oa \in {Null, "white", "black"}, bc \in Marks,
     lb \in {"none", "whiteBottom", "blackBottom"}}
  \cup
  {FenPage("LIVE_BOARD", "start", fl, 0, Null, Null, cc, "none", TRUE, NoVm) :
     fl \in BOOLEAN, cc \in {"flipped", "black-perspective"}}
  \cup
  {FenPage("LIVE_BOARD", "start", fl, 0, Null, Null, Null, "none", TRUE,
           [clock |-> ck, tag |-> tg, fileALow |-> fa, perspective |-> pv,
            avatar |-> av]) :
     fl \in BOOLEAN, ck \in {"none", "dark", "light"},
     tg \in {"none", "black", "white"}, fa \in BOOLEAN,
     pv \in {"none", "black", "white"}, av \in BOOLEAN}

InitPure ==
  /\ page \in PurePages
  /\ now = 0
  /\ lastSent = [pieces |-> EmptyObject, moveList |-> <<>>, variant |-> ""]
  /\ ws = "CLOSED"
  /\ debounceTimer = NoTimer
  /\ timers = <<>>
  /\ currentGame = NoGame
  /\ currentVariant = "standard"
  /\ wire = <<>>
  /\ currentFen = <<>>
  /\ ret = NoRet
  /\ net = NoNet
  /\ overlay = NoOverlay
  /\ cachedPlayerColor = NoCache
  /\ hist = InitHist(FirstScene)

Return(fn, val) ==
  /\ ret' = [fn |-> fn, val |-> val]
  /\ UNCHANGED <<page, now, lastSent, ws, debounceTimer, timers, currentGame,
                 currentVariant, wire, currentFen, hist>>
  /\ UNCHANGED <<net, overlay, cachedPlayerColor>>

Call_determinePlayerColor ==
  Return("determinePlayerColor", determinePlayerColor(page))

\* the cache holds nothing, or the answer of an earlier call
Call_vm_determinePlayerColor ==
  \E cached \in {NoCache, <<TRUE>>, <<FALSE>>} :
    /\ ret' = [fn |-> "vm_determinePlayerColor",
               val |-> vm_determinePlayerColor(page, cached),
               cached |-> cached]
    /\ UNCHANGED <<page, now, lastSent, ws, debounceTimer, timers, currentGame,
                   currentVariant, wire, currentFen, hist>>
    /\ UNCHANGED <<net, overlay, cachedPlayerColor>>

Call_generateFEN == Return("generateFEN", generateFEN(page))

Call_extractPieces == Return("extractPieces", Entries(extractPieces(page)))

Call_determineMoveNumber ==
  Return("determineMoveNumber", determineMoveNumber(page))

Call_vm_determineMoveNumber ==
  Return("vm_determineMoveNumber", vm_determineMoveNumber(page))

Call_reconstructFENFromPieces ==
  Return("reconstructFENFromPieces", reconstructFullmove(extractMoveList(page)))

NextPure ==
  \/ Call_determinePlayerColor
  \/ Call_vm_determinePlayerColor
  \/ Call_generateFEN
  \/ Call_extractPieces
  \/ Call_determineMoveNumber
  \/ Call_vm_determineMoveNumber
  \/ Call_reconstructFENFromPieces

SpecPure == InitPure /\ [][NextPure]_vars

FullMoveNumber(n) == IF n % 2 = 0 THEN (n \div 2) + 1 ELSE (n + 1) \div 2

\* C4: after N half-moves the move number written is N/2 + 1 when N is
\* even and (N + 1)/2 when N is odd, in each of the three functions that
\* write one.
C4_FullMoveNumber ==
  ret.fn \in {"determineMoveNumber", "vm_determineMoveNumber",
              "reconstructFENFromPieces"}
    => ret.val = String(FullMoveNumber(page.n))

StartPlacement == "rnbqkbnr/pppppppp/8/8/8/8/PPPPPPPP/RNBQKBNR"

StartEntries == {<<Sq(c[1], c[2]), StartPos[c]>> : c \in {d \in Coords : StartPos[d] # Empty}}

ShowsStart(p) ==
  p.pos = "start" /\ p.legible /\ determinePlayerColor(p) = p.flipped

\* C5: a document that shows all 32 pieces in the start arrangement, drawn
\* from either side and with the perspective resolved to the side drawn,
\* yields the placement rnbqkbnr/pppppppp/8/8/8/8/PPPPPPPP/RNBQKBNR from
\* generateFEN and the start arrangement from extractPieces.
C5_StartPlacement ==
  /\ ret.fn = "generateFEN" /\ ShowsStart(page)
       => ret.val # NoFen /\ ret.val[1] = StartPlacement
  /\ ret.fn = "extractPieces" /\ ShowsStart(page) => ret.val = StartEntries

ExplicitBlack(p) ==
  \/ p.orientAttr = "black"
  \/ p.orientAttr = Null /\ p.boardClass \in {"flipped", "black-perspective"}

InFallbackTier(p) ==
  /\ p.layout = "LIVE_BOARD" /\ p.orientAttr = Null
  /\ p.boardClass = Null /\ p.containerClass = Null

\* both rank labels are there, and on the screen the label "1" is below
\* (the y attribute grows downwards) respectively above the label "8"
Label1Below(p) ==
  rank1Y(p) # NoY /\ rank8Y(p) # NoY /\ rank1Y(p) > rank8Y(p)

Label1Above(p) ==
  rank1Y(p) # NoY /\ rank8Y(p) # NoY /\ rank1Y(p) < rank8Y(p)

\* C34: in the coordinate check the resolver answers Black at the bottom
\* exactly when the label "1" is lower on the screen than the label "8".
C34_BlackWhenLabel1Lower ==
  ret.fn = "determinePlayerColor" /\ InFallbackTier(page)
    => (ret.val = TRUE <=> Label1Below(page))

\* C34 as the code has it: Black at the bottom exactly when the label "1"
\* is higher on the screen than the label "8" (its y is the smaller one);
\* outside the coordinate check the labels change nothing.
C34_BlackWhenLabel1Higher ==
  ret.fn = "determinePlayerColor"
    => /\ InFallbackTier(page) => (ret.val = TRUE <=> Label1Above(page))
       /\ ~InFallbackTier(page)
            => ret.val = determinePlayerColor([page EXCEPT !.labels = "none"])

\* the coordinate check decided for Black
C34_LabelsSayBlack ==
  /\ ret.fn = "determinePlayerColor" /\ InFallbackTier(page)
  /\ Label1Above(page) /\ ret.val = TRUE

(***************************************************************************)
(* FEN sender: the observer, the debounce timer and calculateAndSendFEN.   *)
(* The layout stays the one found at start-up; initializeScript has run    *)
(* the first calculation on the document it found.                         *)
(***************************************************************************)
FenScenes(layout) ==
  {FenPage(layout, pos, FALSE, IF pos = "e4" THEN 1 ELSE 0, Null, Null, Null,
           "none", legible, NoVm) :
     pos \in {"start", "e4"}, legible \in BOOLEAN}

sendFenToBackend(fen) ==
  <<[via |-> "http", endpoint |-> "/fen", type |-> Null, body |-> fen]>>

InitFen ==
  /\ page \in FenScenes("WC_BOARD") \cup FenScenes("LIVE_BOARD")
  /\ now = 0
  /\ lastSent = [pieces |-> EmptyObject, moveList |-> <<>>, variant |-> ""]
  /\ ws = "CLOSED"
  /\ debounceTimer = NoTimer
  /\ timers = <<>>
  /\ currentGame = NoGame
  /\ currentVariant = "standard"
  /\ \E newFen \in {generateFEN(page)},
        board \in {fenBoard(page, determinePlayerColor(page))} :
       /\ currentFen = newFen
       /\ wire = IF newFen # NoFen THEN sendFenToBackend(newFen) ELSE <<>>
       /\ net = IF newFen # NoFen THEN GM_xmlhttpRequest(NoNet, newFen)
                ELSE NoNet
       /\ ret = [fn |-> "calculateAndSendFEN", val |-> newFen,
                 before |-> NoFen, nodes |-> Len(FenPieceElements(page)),
                 placed |-> pieceCountOf(board), sent |-> newFen # NoFen,
                 acked |-> NoFen, pending |-> FALSE]
  /\ overlay = NoOverlay
  /\ cachedPlayerColor = NoCache
  /\ hist = InitHist(FirstScene)

\* mutationCallback with a relevant change in the list
mutationCallback(sc) ==
  /\ sc \in FenScenes(page.layout)
  /\ page' = sc
  /\ timers' = Append(clearTimeout(timers, debounceTimer),
                      [kind |-> "debounce", due |-> now + DEBOUNCE_DELAY_MS])
  /\ debounceTimer' = now + DEBOUNCE_DELAY_MS
  /\ wire' = <<>>
  /\ UNCHANGED <<now, lastSent, ws, currentGame, currentVariant, currentFen,
                 ret, hist>>
  /\ UNCHANGED <<net, overlay, cachedPlayerColor>>

\* calculateAndSendFEN, entered with the snapshot before.  Its last step, drawing
\* currentAnalysis again after a new FEN, does nothing in this specification:
\* no analysis arrives here, so currentAnalysis has no keys.
calculateAndSendFEN(before) ==
  \E newFen \in {generateFEN(page)},
     board \in {fenBoard(page, determinePlayerColor(page))} :
    /\ currentFen' = IF newFen # NoFen /\ newFen # before THEN newFen ELSE before
    /\ wire' = IF newFen # NoFen /\ newFen # before THEN sendFenToBackend(newFen)
               ELSE <<>>
    /\ net' = IF newFen # NoFen /\ newFen # before
               THEN GM_xmlhttpRequest(net, newFen) ELSE net
    /\ ret' = [fn |-> "calculateAndSendFEN", val |-> newFen, before |-> before,
               nodes |-> Len(FenPieceElements(page)),
               placed |-> pieceCountOf(board),
               sent |-> (newFen # NoFen /\ newFen # before),
               acked |-> net.acked, pending |-> net.inflight # {}]

FenDebounceFire(i) ==
  /\ i \in Pending(timers, "debounce")
  /\ timers[i].due <= now
  /\ timers' = RemoveAt(timers, i)
  /\ debounceTimer' = IF debounceTimer = timers[i].due THEN FiredTimer
                      ELSE debounceTimer
  /\ calculateAndSendFEN(currentFen)
  /\ UNCHANGED <<page, now, lastSent, ws, currentGame, currentVariant, hist>>
  /\ UNCHANGED <<overlay, cachedPlayerColor>>

\* the Recalculate button: the snapshot is cleared, then a calculation runs
resetAndRecalculate ==
  /\ calculateAndSendFEN(NoFen)
  /\ UNCHANGED <<page, now, lastSent, ws, debounceTimer, timers, currentGame,
                 currentVariant, hist>>
  /\ UNCHANGED <<overlay, cachedPlayerColor>>

\* the POST of fen is answered: onload only logs
PostOnload(fen) ==
  /\ fen \in net.inflight
  /\ net' = [inflight |-> net.inflight \ {fen}, acked |-> fen]
  /\ wire' = <<>>
  /\ UNCHANGED <<page, now, lastSent, ws, debounceTimer, timers, currentGame,
                 currentVariant, currentFen, ret, overlay, cachedPlayerColor,
                 hist>>

\* the POST of fen fails or times out: onerror and ontimeout only log
PostOnerror(fen) ==
  /\ fen \in net.inflight
  /\ net' = [net EXCEPT !.inflight = @ \ {fen}]
  /\ wire' = <<>>
  /\ UNCHANGED <<page, now, lastSent, ws, debounceTimer, timers, currentGame,
                 currentVariant, currentFen, ret, overlay, cachedPlayerColor,
                 hist>>

NextFen ==
  \/ \E sc \in FenScenes("WC_BOARD") \cup FenScenes("LIVE_BOARD") :
       mutationCallback(sc)
  \/ \E d \in {DEBOUNCE_DELAY_MS} : Tick(d)
  \/ \E i \in 1..Len(timers) : FenDebounceFire(i)
  \/ resetAndRecalculate
  \/ \E fen \in net.inflight : PostOnload(fen)
  \/ \E fen \in net.inflight : PostOnerror(fen)

SpecFen == InitFen /\ [][NextFen]_vars

\* C7: a calculation that finds piece elements and places none of them
\* sends nothing and leaves currentFen as it was.
C7_NothingPlacedNothingSent ==
  ret.fn = "calculateAndSendFEN" /\ ret.nodes > 0 /\ ret.placed = 0
    => wire = <<>> /\ currentFen = ret.before

\* a calculation ran on such a document while a FEN had been sent before
C7_FailedAfterSuccess ==
  /\ ret.fn = "calculateAndSendFEN" /\ ret.nodes > 0 /\ ret.placed = 0
  /\ ret.before # NoFen /\ currentFen = ret.before /\ ret.val = NoFen

\* C12: a calculation that yields a FEN differing from the last one the
\* backend answered, while no request is awaiting its answer, sends it: a
\* FEN whose request failed is not taken as sent.
C12_FailedSendNotTakenAsSent ==
  ret.fn = "calculateAndSendFEN" /\ ret.val # NoFen /\ ~ret.pending
    /\ ret.val # ret.acked
    => ret.sent

\* C16: after a calculation that found piece elements and placed none, a
\* timer is pending that runs the calculation again, with no further
\* mutation of the page.
C16_FailureArmsRetry ==
  ret.fn = "calculateAndSendFEN" /\ ret.nodes > 0 /\ ret.placed = 0
    => Pending(timers, "retry") # {}

(***************************************************************************)
(* Universal Board Sync 1.1 (part_000, 2620 to 2963), the predecessor of   *)
(* BoardSync: lastSent holds the FEN, the JSON text of the move list and   *)
(* the variant; every cycle posts by HTTP.  The page is a wc-chess-board   *)
(* page, or a page whose board is gone (layout "UNKNOWN"): the observer    *)
(* stays on the detached board node, and a timer armed before the board    *)
(* went away still runs.                                                   *)
(***************************************************************************)
reconstructFENFromPieces(pieces, moveList) ==
  LET board == [r \in 0..7 |-> [f \in 0..7 |->
                 LET pc == Get(pieces, Sq(f + 1, 8 - r))
                 IN IF pc = Undefined THEN NoChar
                    ELSE IF pc[1] = "w" THEN toUpperCase(pc[2])
                    ELSE toLowerCase(pc[2])]]
  IN <<fenPiecePlacement(board), IF Len(moveList) % 2 = 0 THEN "w" ELSE "b",
       "-", "-", "0", reconstructFullmove(moveList)>>

\* extractBoardData of 1.1: on an unknown layout every field keeps its
\* initial value and the record is returned all the same.  boardLayout is
\* a function of pieces and is left out.
v11_extractBoardData(p, variant) ==
  LET type == detectBoardType(p)
      pieces == IF type = "WC_BOARD" THEN extractPieces(p) ELSE EmptyObject
      moveList == IF type = "WC_BOARD" THEN extractMoveList(p) ELSE <<>>
  IN [fen |-> IF type = "WC_BOARD" THEN reconstructFENFromPieces(pieces, moveList)
              ELSE NoFen,
      pieces |-> JSON_stringify(pieces), moveList |-> moveList,
      variant |-> variant]

V11Pages ==
  {OnLayout(sc, l) : sc \in Scenes, l \in {"WC_BOARD"}}
    \cup {OnLayout(FirstScene, "UNKNOWN")}

\* initBoardSync has run on a page with a board: onBoardChange is armed
InitV11 ==
  /\ page = OnLayout(FirstScene, "WC_BOARD")
  /\ now = 0
  /\ lastSent = [fen |-> NoFen, moveList |-> <<>>, variant |-> ""]
  /\ ws = "CONNECTING"
  /\ debounceTimer = DEBOUNCE_MS
  /\ timers = <<[kind |-> "debounce", due |-> DEBOUNCE_MS]>>
  /\ currentGame = NoGame
  /\ currentVariant = "standard"
  /\ wire = <<>>
  /\ currentFen = NoFen
  /\ ret = NoRet
  /\ net = NoNet
  /\ overlay = NoOverlay
  /\ cachedPlayerColor = NoCache
  /\ hist = InitHist(page)

\* the board or the move list changes, or the board is taken off the page
V11Mutation(p) ==
  /\ p \in V11Pages
  /\ page' = p
  /\ timers' = onBoardChange(timers, debounceTimer, now)
  /\ debounceTimer' = now + DEBOUNCE_MS
  /\ wire' = <<>>
  /\ UNCHANGED <<now, lastSent, ws, currentGame, currentVariant, hist>>
  /\ UNCHANGED fenVars

\* the timer callback of onBoardChange of 1.1; the JSON text of a move
\* list is <<moveList>>, the empty text is <<>>
V11DebounceFire(i) ==
  /\ i \in Pending(timers, "debounce")
  /\ timers[i].due <= now
  /\ timers' = RemoveAt(timers, i)
  /\ debounceTimer' = IF debounceTimer = timers[i].due THEN FiredTimer
                      ELSE debounceTimer
  /\ \E data \in {v11_extractBoardData(page, currentVariant)} :
       LET send == \/ data.fen # lastSent.fen
                   \/ <<data.moveList>> # lastSent.moveList
                   \/ data.variant # lastSent.variant
       IN /\ wire' = IF send
                     THEN <<[via |-> "http", endpoint |-> "/fen", type |-> Null,
                             body |-> data]>>
                     ELSE <<>>
          /\ lastSent' = IF send
                         THEN [fen |-> data.fen, moveList |-> <<data.moveList>>,
                               variant |-> data.variant]
                         ELSE lastSent
          /\ ret' = [fn |-> "onBoardChange", type |-> detectBoardType(page),
                     before |-> lastSent, sent |-> send]
  /\ UNCHANGED <<page, now, ws, currentGame, currentVariant, currentFen, net,
                 overlay, cachedPlayerColor, hist>>

NextV11 ==
  \/ \E p \in V11Pages : V11Mutation(p)
  \/ \E d \in {ShortTick, DEBOUNCE_MS} : Tick(d)
  \/ \E i \in 1..Len(timers) : V11DebounceFire(i)

SpecV11 == InitV11 /\ [][NextV11]_vars

\* C15: a cycle that runs while no layout is detected sends nothing and
\* leaves the last-transmitted snapshot and the session as they were.
C15_UnknownLayoutNoOp ==
  ret.fn = "onBoardChange" /\ ret.type = "UNKNOWN"
    => ~ret.sent /\ lastSent = ret.before /\ currentGame = NoGame

(***************************************************************************)
(* Layout detection.  A document is the set of the nodes the two detectors *)
(* look for; each name is the first selector of the query that finds the   *)
(* node (for the ancestors found by closest(), the first selector of that  *)
(* call).  ".move-list-wrapper" is found by the move-list query of both    *)
(* layouts.                                                                *)
(***************************************************************************)
WcNodes ==
  {"wc-chess-board", ".board-layout-main", "wc-simple-move-list",
   "#board-layout-player-top", "#board-layout-player-bottom"}

LiveNodes ==
  {".TheBoard-layers", ".container-four-board-container", ".moves-table",
   ".playerbox-top", ".playerbox-bottom"}

Documents ==
  {[nodes |-> ns] : ns \in SUBSET (WcNodes \cup LiveNodes \cup {".move-list-wrapper"})}

\* findChessBoard of the FEN sender: the layoutType it leaves in boardInfo
findChessBoard(p) ==
  LET wcBoard == querySelector(p, "wc-chess-board")
      wcMoveList == querySelector(p, "wc-simple-move-list")
                      \/ querySelector(p, ".move-list-wrapper")
      liveBoardLayers == querySelector(p, ".TheBoard-layers")
      liveMoveList == querySelector(p, ".moves-table")
                        \/ querySelector(p, ".move-list-wrapper")
  IN IF wcBoard /\ querySelector(p, ".board-layout-main") /\ wcMoveList
        /\ querySelector(p, "#board-layout-player-top")
        /\ querySelector(p, "#board-layout-player-bottom")
     THEN "WC_BOARD"
     ELSE IF liveBoardLayers /\ querySelector(p, ".container-four-board-container")
             /\ liveMoveList /\ querySelector(p, ".playerbox-top")
             /\ querySelector(p, ".playerbox-bottom")
     THEN "LIVE_BOARD"
     ELSE "UNKNOWN"

InitDetect ==
  /\ page \in Documents
  /\ now = 0
  /\ lastSent = [pieces |-> EmptyObject, moveList |-> <<>>, variant |-> ""]
  /\ ws = "CLOSED"
  /\ debounceTimer = NoTimer
  /\ timers = <<>>
  /\ currentGame = NoGame
  /\ currentVariant = "standard"
  /\ wire = <<>>
  /\ currentFen = NoFen
  /\ ret = NoRet
  /\ net = NoNet
  /\ overlay = NoOverlay
  /\ cachedPlayerColor = NoCache
  /\ hist = InitHist(FirstScene)

Call_findChessBoard == Return("findChessBoard", findChessBoard(page))

Call_detectBoardType == Return("detectBoardType", detectBoardType(page))

NextDetect == Call_findChessBoard \/ Call_detectBoardType

SpecDetect == InitDetect /\ [][NextDetect]_vars

\* the nodes an adapter requires, as the specification lists them: board
\* root, move-list root and both player indicators
WcRequired(p) ==
  /\ "wc-chess-board" \in p.nodes
  /\ {"wc-simple-move-list", ".move-list-wrapper"} \cap p.nodes # {}
  /\ {"#board-layout-player-top", "#board-layout-player-bottom"} \subseteq p.nodes

LiveRequired(p) ==
  /\ ".TheBoard-layers" \in p.nodes
  /\ {".moves-table", ".move-list-wrapper"} \cap p.nodes # {}
  /\ {".playerbox-top", ".playerbox-bottom"} \subseteq p.nodes

\* C14: a detector answers with a layout only when the board root, the
\* move-list root and both player indicators of that layout are in the
\* document, and it answers with the first layout when the nodes of both
\* layouts are all there.
C14_MatchNeedsAllNodes ==
  ret.fn \in {"findChessBoard", "detectBoardType"}
    => /\ ret.val = "WC_BOARD" => WcRequired(page)
       /\ ret.val = "LIVE_BOARD" => LiveRequired(page)
       /\ WcNodes \cup LiveNodes \subseteq page.nodes => ret.val = "WC_BOARD"

(***************************************************************************)
(* FEN sender: the analysis overlay.  A page is the geometry of the board  *)
(* root and of its parent (getBoundingClientRect, in px) and the           *)
(* perspective determinePlayerColor answers.  A batch is the finalShapes   *)
(* array of an inbound message; every shape names two squares of the       *)
(* board.  Pixel coordinates are kept in thousandths of a pixel.           *)
(***************************************************************************)
ARROW_WIDTH == 12

MaxShapes == 2         \* most shapes in one batch

\* an endpoint that was not moved
NoAngle == 999

\* <<1000 cos, 1000 sin>> of the angles the fan uses for groups of 2 to 4
Trig1000(deg) ==
  CASE deg = -45 -> <<707, -707>> [] deg = -15 -> <<966, -259>>
    [] deg = 0 -> <<1000, 0>> [] deg = 15 -> <<966, 259>>
    [] deg = 45 -> <<707, 707>>

\* s in ascending order of keys, equal keys in their order in s
\* (Array.prototype.sort is stable)
StableSortBy(s, keys) ==
  LET pos(i) == Cardinality({j \in 1..Len(s) :
                   keys[j] < keys[i] \/ (keys[j] = keys[i] /\ j < i)}) + 1
  IN [q \in 1..Len(s) |-> s[CHOOSE i \in 1..Len(s) : pos(i) = q]]

getSquareCoordinates(square, playingAsBlack, squareSize) ==
  LET algebraicFileIndex == fileIndexOf(square)
      algebraicRankNumber == parseInt(<<square[2]>>)
      visualFileIndex == IF playingAsBlack THEN 7 - algebraicFileIndex
                         ELSE algebraicFileIndex
      visualRankIndex == IF playingAsBlack THEN algebraicRankNumber - 1
                         ELSE 8 - algebraicRankNumber
  IN <<(2 * visualFileIndex + 1) * squareSize * 500,
       (2 * visualRankIndex + 1) * squareSize * 500>>

\* index and angle of member i in its group of the list t
fanAngle(t, i, group) ==
  LET n == Cardinality(group)
      idx == Cardinality({j \in group :
                t[j].rank < t[i].rank \/ (t[j].rank = t[i].rank /\ j < i)})
  IN IF n > 1 THEN (idx * 90) \div (n - 1) - 45 ELSE NoAngle

\* coords moved by distance1000 (thousandths of a px) in direction angle
offsetBy(coords, angle, distance1000) ==
  IF angle = NoAngle THEN coords
  ELSE <<coords[1] + (Trig1000(angle)[1] * distance1000) \div 1000,
         coords[2] + (Trig1000(angle)[2] * distance1000) \div 1000>>

\* destKey and originKey of renderEngineVisualization
destKey(shape) == <<shape.to, shape.engineIndex>>

originKey(shape) == <<shape.from, shape.engineIndex>>

\* the shapes of finalShapes with rank, engine index and the coordinates
\* of their squares, in the order of totalProcessedShapes before the sort
\* by length.  Object.values(engines) lists the engines by ascending id;
\* the lists of the engines, each sorted by rank, are concatenated.
rankShapes(finalShapes, playingAsBlack, squareSize) ==
  LET ids == {finalShapes[i].engineId : i \in 1..Len(finalShapes)}
      engineIndexOf(id) == Cardinality({e \in ids : e < id})
      ranked == [i \in 1..Len(finalShapes) |->
                  [from |-> finalShapes[i].from, to |-> finalShapes[i].to,
                   rank |-> IF finalShapes[i].rank # 0 THEN finalShapes[i].rank
                            ELSE i,
                   engineIndex |-> engineIndexOf(finalShapes[i].engineId),
                   fromCoords |-> getSquareCoordinates(finalShapes[i].from,
                                                       playingAsBlack, squareSize),
                   toCoords |-> getSquareCoordinates(finalShapes[i].to,
                                                     playingAsBlack, squareSize)]]
  IN Only({StableSortBy(r, [i \in 1..Len(r) |->
                              r[i].engineIndex * (Len(r) + 1) * 2 + r[i].rank]) :
             r \in {ranked}})

\* the square of arrowLength, in px (the centres lie on whole px here)
arrowLength2(shape) ==
  LET dx == (shape.toCoords[1] - shape.fromCoords[1]) \div 1000
      dy == (shape.toCoords[2] - shape.fromCoords[2]) \div 1000
  IN dx * dx + dy * dy

\* the offsets applied to the list total, which is in drawing order
fanOut(total) ==
  [i \in 1..Len(total) |->
     LET toAngle == fanAngle(total, i,
                      {j \in 1..Len(total) : destKey(total[j]) = destKey(total[i])})
         fromAngle == fanAngle(total, i,
                        {j \in 1..Len(total) : originKey(total[j]) = originKey(total[i])})
     IN [from |-> total[i].from, to |-> total[i].to, rank |-> total[i].rank,
         engineIndex |-> total[i].engineIndex,
         toAngle |-> toAngle, fromAngle |-> fromAngle,
         toCoords |-> offsetBy(total[i].toCoords, toAngle, ARROW_WIDTH * 800),
         fromCoords |-> offsetBy(total[i].fromCoords, fromAngle,
                                 ARROW_WIDTH * 500)]]

\* renderEngineVisualization without the sort by arrowLength
processShapesByRank(finalShapes, playingAsBlack, squareSize) ==
  fanOut(rankShapes(finalShapes, playingAsBlack, squareSize))

\* the arrows renderEngineVisualization draws for finalShapes, in drawing
\* order: longer arrows first
processShapes(finalShapes, playingAsBlack, squareSize) ==
  Only({fanOut(total) :
          total \in {StableSortBy(r, [i \in 1..Len(r) |-> 0 - arrowLength2(r[i])]) :
                       r \in {rankShapes(finalShapes, playingAsBlack, squareSize)}}})

clearAnalysisVisualsNoop(o) == o

clearAnalysisVisuals(o) == [o EXCEPT !.arrows = <<>>]

\* top, left, width and height that overlay the board root within its parent
styleFor(p) ==
  [top |-> p.boardRect.top - p.parentRect.top,
   left |-> p.boardRect.left - p.parentRect.left,
   width |-> p.boardRect.width, height |-> p.boardRect.height]

createAnalysisOverlay(o, p) ==
  IF o.attached THEN o
  ELSE IF p.boardRect.width <= 0 \/ p.boardRect.height <= 0 THEN o
  ELSE [o EXCEPT !.attached = TRUE, !.arrows = <<>>, !.style = styleFor(p)]

getBoardDimensions(p) ==
  Min(p.boardRect.width, p.boardRect.height) \div 8

renderEngineVisualization(o, visualization, p) ==
  LET o1 == clearAnalysisVisuals(createAnalysisOverlay(o, p))
  IN IF o1.attached
     THEN [o1 EXCEPT !.arrows = @ \o processShapes(visualization, p.flipped,
                                                   getBoardDimensions(p))]
     ELSE o1

VizSquares == {<<"e", "2">>, <<"d", "3">>, <<"e", "4">>}

VizShapes ==
  {[from |-> f, to |-> <<"e", "4">>, rank |-> r, engineId |-> e] :
     f \in VizSquares \ {<<"e", "4">>}, r \in 1..2, e \in 0..1}

Batches ==
  UNION {[1..n -> VizShapes] : n \in 0..MaxShapes}

Rect(top, left, size) == [top |-> top, left |-> left, width |-> size, height |-> size]

\* the board as first laid out, scrolled with its parent, and resized
Geometries ==
  {[boardRect |-> Rect(100, 48, 400), parentRect |-> Rect(100, 48, 400)],
   [boardRect |-> Rect(20, 48, 400), parentRect |-> Rect(20, 48, 400)],
   [boardRect |-> Rect(100, 48, 320), parentRect |-> Rect(100, 48, 400)]}

VizPage(g, fl) ==
  [boardRect |-> g.boardRect, parentRect |-> g.parentRect, flipped |-> fl]

InitViz ==
  /\ page \in {VizPage(g, FALSE) : g \in Geometries}
  /\ now = 0
  /\ lastSent = [pieces |-> EmptyObject, moveList |-> <<>>, variant |-> ""]
  /\ ws = "OPEN"
  /\ debounceTimer = NoTimer
  /\ timers = <<>>
  /\ currentGame = NoGame
  /\ currentVariant = "standard"
  /\ wire = <<>>
  /\ currentFen = NoFen
  /\ ret = NoRet
  /\ net = NoNet
  /\ overlay = NoOverlay
  /\ cachedPlayerColor = NoCache
  /\ hist = InitHist(FirstScene)

\* ws.onmessage with an analysis batch: currentAnalysis is replaced and
\* rendered
AnalysisMessage(batch) ==
  /\ ws = "OPEN"
  /\ overlay' = [renderEngineVisualization(overlay, batch, page)
                  EXCEPT !.hasAnalysis = TRUE, !.currentAnalysis = batch]
  /\ ret' = [fn |-> "renderEngineVisualization",
             squareSize |-> getBoardDimensions(page),
             stale |-> overlay.arrows # <<>>,
             repeat |-> overlay.hasAnalysis /\ overlay.currentAnalysis = batch,
             before |-> IF overlay.hasAnalysis /\ overlay.currentAnalysis = batch
                        THEN [i \in 1..Len(overlay.arrows) |->
                                <<overlay.arrows[i].toAngle,
                                  overlay.arrows[i].fromAngle>>]
                        ELSE <<>>,
             surface |-> styleFor(page)]
  /\ UNCHANGED <<page, now, lastSent, ws, debounceTimer, timers, currentGame,
                 currentVariant, wire, currentFen, net, cachedPlayerColor,
                 hist>>

\* the window is resized or the page scrolls
Resize(g) ==
  /\ g \in Geometries
  /\ page' = VizPage(g, page.flipped)
  /\ UNCHANGED <<now, lastSent, ws, debounceTimer, timers, currentGame,
                 currentVariant, wire, currentFen, ret, net, overlay,
                 cachedPlayerColor, hist>>

\* the site rebuilds the board area: the overlay nodes leave the document
OverlayDetached ==
  /\ overlay.attached
  /\ overlay' = [overlay EXCEPT !.attached = FALSE, !.arrows = <<>>]
  /\ UNCHANGED <<page, now, lastSent, ws, debounceTimer, timers, currentGame,
                 currentVariant, wire, currentFen, ret, net,
                 cachedPlayerColor, hist>>

NextViz ==
  \/ \E batch \in Batches : AnalysisMessage(batch)
  \/ \E g \in Geometries : Resize(g)
  \/ OverlayDetached

SpecViz == InitViz /\ [][NextViz]_vars

\* C17: after a batch was rendered the overlay holds the arrows and labels
\* of that batch and nothing else.
C17_SceneIsLatestBatch ==
  ret.fn = "renderEngineVisualization" /\ overlay.attached
    => overlay.arrows = processShapes(overlay.currentAnalysis, page.flipped,
                                      ret.squareSize)

\* a batch was rendered over the arrows of a different earlier batch
C17_ReplacedEarlierBatch ==
  /\ ret.fn = "renderEngineVisualization" /\ overlay.attached
  /\ ret.stale /\ ~ret.repeat /\ overlay.arrows # <<>>
  /\ Len(overlay.arrows) = Len(overlay.currentAnalysis)

\* C18: two arrows of the rendered batch that end on the same square have
\* different end points.
C18_SharedDestinationDistinct ==
  \A i, j \in 1..Len(overlay.arrows) :
    i # j /\ overlay.arrows[i].to = overlay.arrows[j].to
      => overlay.arrows[i].toCoords # overlay.arrows[j].toCoords

\* C19: a batch rendered again gives every arrow the offsets it had, and
\* among the arrows that end on one square the offsets follow the ranks.
C19_OffsetsRepeatInRankOrder ==
  ret.fn = "renderEngineVisualization" /\ overlay.attached
    => /\ ret.repeat /\ Len(ret.before) = Len(overlay.arrows)
            => \A i \in 1..Len(overlay.arrows) :
                 ret.before[i] = <<overlay.arrows[i].toAngle,
                                   overlay.arrows[i].fromAngle>>
       /\ \A i, j \in 1..Len(overlay.arrows) :
            overlay.arrows[i].to = overlay.arrows[j].to
              /\ overlay.arrows[i].rank < overlay.arrows[j].rank
              => /\ overlay.arrows[i].toAngle # NoAngle
                 /\ overlay.arrows[j].toAngle # NoAngle
                 /\ overlay.arrows[i].toAngle < overlay.arrows[j].toAngle

\* C20: after a batch was rendered the overlay has the position and size
\* of the board root as it was when the batch arrived.
C20_SurfaceMatchesBoard ==
  ret.fn = "renderEngineVisualization" /\ overlay.attached
    => overlay.style = ret.surface

\* the square of the length of the arrow a between the centres of its
\* squares, as renderEngineVisualization computes arrowLength
lengthOf(a, playingAsBlack, squareSize) ==
  arrowLength2([fromCoords |-> getSquareCoordinates(a.from, playingAsBlack,
                                                    squareSize),
                toCoords |-> getSquareCoordinates(a.to, playingAsBlack,
                                                  squareSize)])

VM_DEBOUNCE_DELAY_MS == 750
VM_RETRY_MS == 1000

MaxTimers == 2         \* most timers pending when the button is pressed
MaxVmTicks == 1        \* how many times the clock advances in one behaviour

NoCoords == <<>>

vm_getSquareCoordinates(square, squareSize, playingAsBlack) ==
  IF Len(square) # 2 THEN NoCoords
  ELSE LET file == fileIndexOf(square)
           rank == 8 - parseInt(<<square[2]>>)
           adjustedFile == IF playingAsBlack THEN 7 - file ELSE file
           adjustedRank == IF playingAsBlack THEN 7 - rank ELSE rank
       IN IF file < 0 \/ file > 7 \/ rank < 0 \/ rank > 7 THEN NoCoords
          ELSE <<(2 * adjustedFile + 1) * squareSize * 500,
                 (2 * adjustedRank + 1) * squareSize * 500>>

\* Math.round of a / b for a >= 0, b > 0
Round(a, b) == (2 * a + b) \div (2 * b)

vm_mapCoordsToSquare(x, y, squareSize) ==
  IF squareSize <= 0 THEN NoSquare
  ELSE LET fileIndex == Round(x, squareSize)
           rankIndex == 7 - Round(y, squareSize)
       IN IF fileIndex < 0 \/ fileIndex > 7 \/ rankIndex < 0 \/ rankIndex > 7
          THEN NoSquare
          ELSE SquareName(fileIndex + 1, rankIndex + 1)

\* where generateFEN writes one piece element, and what
vm_placeCell(p, el, playingAsBlack) ==
  IF el.dataPiece = NoAttr \/ el.dataColor = Null THEN NoCell
  ELSE LET square == vm_mapCoordsToSquare(el.tx, el.ty, squareSizeOf(p))
       IN IF square = NoSquare THEN NoCell
          ELSE LET fileIndex == fileIndexOf(square)
                   rankIndex == fenRankIndexOf(square)
                   fenChar == IF el.dataColor = "5"
                              THEN toUpperCase(el.dataPiece[1])
                              ELSE toLowerCase(el.dataPiece[1])
               IN IF playingAsBlack
                  THEN <<7 - rankIndex, 7 - fileIndex, fenChar>>
                  ELSE <<rankIndex, fileIndex, fenChar>>

\* the 8x8 array after the loop: a cell holds the last character written
vm_boardOf(placed) ==
  [r \in 0..7 |-> [f \in 0..7 |->
     LET hits == {i \in 1..Len(placed) : placed[i][1] = r /\ placed[i][2] = f}
     IN IF hits = {} THEN NoChar
        ELSE placed[CHOOSE i \in hits : \A j \in hits : i >= j][3]]]

\* determineActiveColor with no clock telling: the first move cell that is
\* the last child of its row decides by its index among the move cells
vm_determineActiveColor(p) ==
  IF p.n = 0 THEN "w"
  ELSE LET moveIndex == IF p.n = 1 THEN 0 ELSE 1
       IN IF moveIndex % 2 = 0 THEN "b" ELSE "w"

\* is determinePlayerColor reached by generateFEN or by the renderer
vm_hasDimensions(p) == squareSizeOf(p) > 0

vm_generateFEN(p, cached) ==
  IF ~vm_hasDimensions(p) THEN NoFen
  ELSE IF Len(FenPieceElements(p)) = 0 THEN NoFen
  ELSE Only({<<fenPiecePlacement(vm_boardOf(placed)),
               vm_determineActiveColor(p), "-", "-", "0",
               vm_determineMoveNumber(p)>> :
               placed \in {[i \in 1..Len(els) |->
                              vm_placeCell(p, els[i], b)] :
                             els \in {FenPieceElements(p)},
                             b \in {vm_determinePlayerColor(p, cached)}}})

\* cachedPlayerColor after determinePlayerColor ran
vm_cacheAfter(p, cached) == <<vm_determinePlayerColor(p, cached)>>

\* the board before and after 1. e4, seen from either side, and the
\* board while it has no size
VmScenes ==
  {FenPage("LIVE_BOARD", pos, fl, IF pos = "e4" THEN 1 ELSE 0, Null, Null,
           Null, "none", TRUE, NoVm) :
     pos \in {"start", "e4"}, fl \in BOOLEAN}
  \cup
  {FenPage("LIVE_BOARD", "start", FALSE, 0, Null, Null, Null, "none", FALSE,
           NoVm)}

\* data.analysis of a "board_visualization" message; move is "e2-e4",
\* written as the pair that split('-') gives
VmItems ==
  {[move |-> <<<<"e", "2">>, <<"e", "4">>>>, rank |-> 1]}

VmBatches == {<<>>} \cup {<<item>> : item \in VmItems}

vm_drawArrow(from, to, rank, squareSize, playingAsBlack) ==
  LET fromCoords == vm_getSquareCoordinates(from, squareSize, playingAsBlack)
      toCoords == vm_getSquareCoordinates(to, squareSize, playingAsBlack)
  IN IF fromCoords = NoCoords \/ toCoords = NoCoords THEN <<>>
     ELSE <<[from |-> from, to |-> to, rank |-> rank,
             fromCoords |-> fromCoords, toCoords |-> toCoords]>>

RECURSIVE vm_drawAll(_, _, _)
vm_drawAll(items, squareSize, playingAsBlack) ==
  IF items = <<>> THEN <<>>
  ELSE vm_drawArrow(Head(items).move[1], Head(items).move[2], Head(items).rank,
                    squareSize, playingAsBlack)
       \o vm_drawAll(Tail(items), squareSize, playingAsBlack)

vm_createAnalysisOverlay(o) == IF o.attached THEN o ELSE [o EXCEPT !.attached = TRUE]

\* the arrows of engineLines, then those of finalShapes: both are built
\* from data.analysis
vm_renderEngineVisualization(o, analysis, p, cached) ==
  LET o1 == clearAnalysisVisuals(vm_createAnalysisOverlay(o))
  IN IF ~vm_hasDimensions(p) THEN o1
     ELSE [o1 EXCEPT !.arrows =
             Only({drawn \o drawn :
                     drawn \in {vm_drawAll(analysis, squareSizeOf(p),
                                           vm_determinePlayerColor(p, cached))}})]

\* what a handler that may call determinePlayerColor leaves in ret
VmRet(fn, p, cached, event) ==
  [fn |-> fn, resolved |-> vm_hasDimensions(p),
   fromCache |-> cached # NoCache, event |-> event,
   fresh |-> vm_determinePlayerColor(p, NoCache),
   squareSize |-> squareSizeOf(p)]

\* calculateAndSendFEN, entered with the snapshot before, the cache cached
\* and the pending timers ts
vm_calculateAndSendFEN(before, cached, ts, event) ==
  \E newFen \in {vm_generateFEN(page, cached)} :
    /\ cachedPlayerColor' = IF vm_hasDimensions(page)
                            THEN vm_cacheAfter(page, cached) ELSE cached
    /\ timers' = IF newFen = NoFen
                 THEN Append(ts, [kind |-> "retry", due |-> now + VM_RETRY_MS])
                 ELSE ts
    /\ currentFen' = IF newFen # NoFen /\ newFen # before THEN newFen ELSE before
    /\ wire' = IF newFen # NoFen /\ newFen # before THEN sendFenToBackend(newFen)
               ELSE <<>>
    /\ ret' = VmRet("calculateAndSendFEN", page, cached, event)
    /\ hist' = [hist EXCEPT !.event = IF vm_hasDimensions(page) THEN "none"
                                      ELSE event]

\* initializeObserver found its containers and ran the first calculation
InitVm ==
  /\ page \in VmScenes
  /\ now = 0
  /\ lastSent = [pieces |-> EmptyObject, moveList |-> <<>>, variant |-> ""]
  /\ ws = "OPEN"
  /\ debounceTimer = NoTimer
  /\ currentGame = NoGame
  /\ currentVariant = "standard"
  /\ overlay = NoOverlay
  /\ net = NoNet
  /\ hist = [ticks |-> 0, event |-> "none"]
  /\ \E newFen \in {vm_generateFEN(page, NoCache)} :
       /\ cachedPlayerColor = IF vm_hasDimensions(page)
                              THEN vm_cacheAfter(page, NoCache) ELSE NoCache
       /\ timers = IF newFen = NoFen
                   THEN <<[kind |-> "retry", due |-> VM_RETRY_MS]>> ELSE <<>>
       /\ currentFen = newFen
       /\ wire = IF newFen # NoFen THEN sendFenToBackend(newFen) ELSE <<>>
       /\ ret = VmRet("calculateAndSendFEN", page, NoCache, "none")

\* mutationCallback with a relevant change in the list
vm_mutationCallback(sc) ==
  /\ sc \in VmScenes
  /\ page' = sc
  /\ timers' = Append(clearTimeout(timers, debounceTimer),
                      [kind |-> "debounce", due |-> now + VM_DEBOUNCE_DELAY_MS])
  /\ debounceTimer' = now + VM_DEBOUNCE_DELAY_MS
  /\ hist' = [hist EXCEPT !.event = IF sc.n = 0 /\ page.n > 0 THEN "newgame"
                                    ELSE @]
  /\ wire' = <<>>
  /\ UNCHANGED <<now, lastSent, ws, currentGame, currentVariant, currentFen,
                 ret, net, overlay, cachedPlayerColor>>

\* time passes
VmTick(d) ==
  /\ hist.ticks < MaxVmTicks
  /\ now' = now + d
  /\ hist' = [hist EXCEPT !.ticks = @ + 1]
  /\ wire' = <<>>
  /\ UNCHANGED <<page, lastSent, ws, debounceTimer, timers, currentGame,
                 currentVariant, currentFen, ret, net, overlay,
                 cachedPlayerColor>>

\* a timer runs calculateAndSendFEN: the debounce timer or a retry
VmTimerFire(i) ==
  /\ i \in 1..Len(timers)
  /\ timers[i].due <= now
  /\ debounceTimer' = IF timers[i].kind = "debounce"
                         /\ debounceTimer = timers[i].due
                      THEN FiredTimer ELSE debounceTimer
  /\ vm_calculateAndSendFEN(currentFen, cachedPlayerColor,
                            RemoveAt(timers, i), hist.event)
  /\ UNCHANGED <<page, now, lastSent, ws, currentGame, currentVariant,
                 net, overlay>>

\* the Recalculate button
vm_resetCache ==
  /\ Len(timers) < MaxTimers
  /\ vm_calculateAndSendFEN(NoFen, NoCache, timers, "reset")
  /\ UNCHANGED <<page, now, lastSent, ws, debounceTimer, currentGame,
                 currentVariant, net, overlay>>

\* ws.onmessage with a "board_visualization" message
VmAnalysisMessage(analysis) ==
  /\ ws = "OPEN"
  /\ overlay' = vm_renderEngineVisualization(overlay, analysis, page,
                                             cachedPlayerColor)
  /\ cachedPlayerColor' = IF vm_hasDimensions(page)
                          THEN vm_cacheAfter(page, cachedPlayerColor)
                          ELSE cachedPlayerColor
  /\ ret' = VmRet("renderEngineVisualization", page, cachedPlayerColor,
                  hist.event)
  /\ hist' = [hist EXCEPT !.event = IF vm_hasDimensions(page) THEN "none"
                                    ELSE @]
  /\ wire' = <<>>
  /\ UNCHANGED <<page, now, lastSent, ws, debounceTimer, timers, currentGame,
                 currentVariant, currentFen, net>>

NextVm ==
  \/ \E sc \in VmScenes : vm_mutationCallback(sc)
  \/ \E d \in {VM_DEBOUNCE_DELAY_MS, VM_RETRY_MS} : VmTick(d)
  \/ \E i \in 1..Len(timers) : VmTimerFire(i)
  \/ vm_resetCache
  \/ \E analysis \in VmBatches : VmAnalysisMessage(analysis)

SpecVm == InitVm /\ [][NextVm]_vars

\* C21: the arrows of a rendered batch stand where the squares are drawn
\* on the page at the time of rendering, also after the board was flipped.
C21_RenderFollowsFlip ==
  ret.fn = "renderEngineVisualization" /\ ret.resolved
    => \A i \in 1..Len(overlay.arrows) :
         /\ overlay.arrows[i].fromCoords =
              vm_getSquareCoordinates(overlay.arrows[i].from, ret.squareSize,
                                      ret.fresh)
         /\ overlay.arrows[i].toCoords =
              vm_getSquareCoordinates(overlay.arrows[i].to, ret.squareSize,
                                      ret.fresh)

\* C22: the first time the perspective is resolved after the Recalculate
\* button was pressed or after a new game appeared, it is not taken from
\* cachedPlayerColor.
C22_EventsInvalidateCache ==
  ret.fn \in {"calculateAndSendFEN", "renderEngineVisualization"}
    /\ ret.resolved /\ ret.event # "none"
    => ~ret.fromCache

\* C25: at most one timer that runs calculateAndSendFEN is pending.
C25_OneRecomputeTimer ==
  Cardinality(Pending(timers, "debounce") \cup Pending(timers, "retry")) <= 1

(***************************************************************************)
(* The WebSocket of each script and its reconnection.  page.script names   *)
(* the userscript installed in the document: "BoardSync" (part_000, 2980   *)
(* on), "FenSender" (part_000, 24 on) or "Readme" (the v4.0 script printed *)
(* in README.md).  Only differences of time matter here, so now is         *)
(* counted from the last run of connectWebSocket, and time is only         *)
(* followed while a timer is pending.                                      *)
(***************************************************************************)
Scripts == {"BoardSync", "FenSender", "Readme"}

\* ws.onclose of the script: the timers after the handler has run
onclose(script, ts, t) ==
  IF script \in {"BoardSync", "BoardSync11", "FenSender"}
  THEN Append(ts, [kind |-> "reconnect", due |-> t + RECONNECT_MS])
  ELSE ts

\* what ws.onopen sends
onopen(script) ==
  IF script = "FenSender"
  THEN <<[via |-> "ws", endpoint |-> Null, type |-> "client_connect",
          body |-> [client |-> "chesscom_extension", version |-> "4.0"]]>>
  ELSE <<>>

InitChannel ==
  /\ page \in {[script |-> sc] : sc \in Scripts}
  /\ now = 0
  /\ lastSent = [pieces |-> EmptyObject, moveList |-> <<>>, variant |-> ""]
  /\ ws = "CONNECTING"
  /\ debounceTimer = NoTimer
  /\ timers = <<>>
  /\ currentGame = NoGame
  /\ currentVariant = "standard"
  /\ wire = <<>>
  /\ currentFen = <<>>
  /\ ret = NoRet
  /\ net = NoNet
  /\ overlay = NoOverlay
  /\ cachedPlayerColor = NoCache
  /\ hist = [closedAt |-> NoTimer, delay |-> NoTimer]

\* the connection is established
ChannelOpen ==
  /\ ws = "CONNECTING"
  /\ ws' = "OPEN"
  /\ wire' = onopen(page.script)
  /\ UNCHANGED <<page, now, lastSent, debounceTimer, timers, currentGame,
                 currentVariant, currentFen, ret, hist>>
  /\ UNCHANGED <<net, overlay, cachedPlayerColor>>

\* the connection is lost, or the attempt to connect fails
ChannelClose ==
  /\ ws \in {"CONNECTING", "OPEN"}
  /\ ws' = "CLOSED"
  /\ timers' = onclose(page.script, timers, now)
  /\ hist' = [hist EXCEPT !.closedAt = now]
  /\ wire' = <<>>
  /\ UNCHANGED <<page, now, lastSent, debounceTimer, currentGame,
                 currentVariant, currentFen, ret>>
  /\ UNCHANGED <<net, overlay, cachedPlayerColor>>

\* time passes, up to the moment the next timer is due
ChannelTick(d) ==
  /\ timers # <<>>
  /\ \A i \in 1..Len(timers) : timers[i].due > now
  /\ now' = Min(now + d, timers[1].due)
  /\ wire' = <<>>
  /\ UNCHANGED <<page, lastSent, ws, debounceTimer, timers, currentGame,
                 currentVariant, currentFen, ret, hist>>
  /\ UNCHANGED <<net, overlay, cachedPlayerColor>>

\* the reconnect timer runs connectWebSocket
connectWebSocket(i) ==
  /\ i \in Pending(timers, "reconnect")
  /\ timers[i].due <= now
  /\ timers' = RemoveAt(timers, i)
  /\ ws' = "CONNECTING"
  /\ hist' = [hist EXCEPT !.delay = now - hist.closedAt]
  /\ now' = 0
  /\ wire' = <<>>
  /\ UNCHANGED <<page, lastSent, debounceTimer, currentGame, currentVariant,
                 currentFen, ret>>
  /\ UNCHANGED <<net, overlay, cachedPlayerColor>>

TimePasses == \E d \in {ShortTick, RECONNECT_MS} : ChannelTick(d)

TimerRuns == \E i \in 1..Len(timers) : connectWebSocket(i)

NextChannel ==
  \/ ChannelOpen
  \/ ChannelClose
  \/ TimePasses
  \/ TimerRuns

\* time passes and a due timer is run
SpecChannel ==
  InitChannel /\ [][NextChannel]_vars /\ WF_vars(TimePasses) /\ WF_vars(TimerRuns)

\* C11: whenever the channel is closed, a new attempt to connect follows,
\* RECONNECT_MS after the close; this holds after a failed attempt as after
\* a lost connection, so attempts recur until one succeeds.
C11_ReconnectAfterClose ==
  [](ws = "CLOSED" => <>(ws = "CONNECTING" /\ hist.delay = RECONNECT_MS))

(***************************************************************************)
(* BoardSync 1.2 and 1.1: every caller of connectWebSocket.  page.script   *)
(* is "BoardSync" (part_000, 2980 on) or "BoardSync11" (part_000, 2620 to  *)
(* 2960).  The function is run by the reconnect timer, by the Reconnect    *)
(* button (1.2) and by initBoardSync, which tryInitBoardSync calls again   *)
(* when the body observer sees another board type than the last one.  ret  *)
(* keeps the last run of connectWebSocket: who called, the readyState of   *)
(* the socket it found, and whether its close of that socket armed a       *)
(* timer.                                                                  *)
(***************************************************************************)
BOARD_INIT_MS == 300
MaxReconnects == 1     \* most reconnect timers pending at once

SyncScripts == {"BoardSync", "BoardSync11"}

PageOf(script, layout) == OnLayout(FirstScene, layout) @@ ("script" :> script)

\* connectWebSocket closes the socket it finds: in 1.2 after ws.onclose =
\* null, in 1.1 with the handler in place, which then runs as the socket
\* closes unless it was closed already.  The result: does onclose run
closeExisting(script, state) ==
  script = "BoardSync11" /\ state \in {"CONNECTING", "OPEN"}

\* the timers after connectWebSocket has run with ts pending
timersAfterConnect(script, state, ts, t) ==
  IF closeExisting(script, state) THEN onclose(script, ts, t) ELSE ts

ConnectRet(caller) ==
  [fn |-> "connectWebSocket", caller |-> caller, was |-> ws,
   armed |-> closeExisting(page.script, ws)]

InitReconnect ==
  /\ page \in {PageOf(s, "WC_BOARD") : s \in SyncScripts}
  /\ now = 0
  /\ lastSent = IF page.script = "BoardSync"
                THEN [pieces |-> EmptyObject, moveList |-> <<>>, variant |-> ""]
                ELSE [fen |-> NoFen, moveList |-> <<>>, variant |-> ""]
  /\ ws = "CONNECTING"
  /\ debounceTimer = DEBOUNCE_MS
  /\ timers = <<[kind |-> "debounce", due |-> DEBOUNCE_MS]>>
  /\ currentGame = NoGame
  /\ currentVariant = "standard"
  /\ wire = <<>>
  /\ currentFen = NoFen
  /\ ret = NoRet
  /\ net = NoNet
  /\ overlay = NoOverlay
  /\ cachedPlayerColor = NoCache
  /\ hist = InitHist(page) @@ ("lastBoardType" :> "WC_BOARD")

\* ws.onopen: 1.2 announces the current game, 1.1 only logs
RcOpen ==
  IF page.script = "BoardSync"
  THEN WsOpen
  ELSE /\ ws = "CONNECTING"
       /\ ws' = "OPEN"
       /\ wire' = <<>>
       /\ UNCHANGED <<page, now, lastSent, debounceTimer, timers, currentGame,
                      currentVariant, hist>>
       /\ UNCHANGED fenVars

\* the connection is lost or the attempt fails: ws.onclose
RcClose ==
  /\ ws \in {"CONNECTING", "OPEN"}
  /\ Cardinality(Pending(timers, "reconnect")) < MaxReconnects
  /\ ws' = "CLOSED"
  /\ timers' = onclose(page.script, timers, now)
  /\ wire' = <<>>
  /\ UNCHANGED <<page, now, lastSent, debounceTimer, currentGame,
                 currentVariant, hist>>
  /\ UNCHANGED fenVars

\* the reconnect timer runs connectWebSocket
RcTimerFire(i) ==
  /\ i \in Pending(timers, "reconnect")
  /\ timers[i].due <= now
  /\ timers' = timersAfterConnect(page.script, ws, RemoveAt(timers, i), now)
  /\ ws' = "CONNECTING"
  /\ ret' = ConnectRet("timer")
  /\ wire' = <<>>
  /\ UNCHANGED <<page, now, lastSent, debounceTimer, currentGame,
                 currentVariant, currentFen, net, overlay, cachedPlayerColor,
                 hist>>

\* the Reconnect button of 1.2
forceReconnect ==
  /\ page.script = "BoardSync"
  /\ timers' = timersAfterConnect(page.script, ws, timers, now)
  /\ ws' = "CONNECTING"
  /\ ret' = ConnectRet("forceReconnect")
  /\ wire' = <<>>
  /\ UNCHANGED <<page, now, lastSent, debounceTimer, currentGame,
                 currentVariant, currentFen, net, overlay, cachedPlayerColor,
                 hist>>

\* the page puts another board in the document: the body observer re-arms
\* boardInitTimeout
BodyMutation(l) ==
  /\ l # page.layout
  /\ page' = PageOf(page.script, l)
  /\ timers' = Append(SelectSeq(timers, LAMBDA tm : tm.kind # "boardInit"),
                      [kind |-> "boardInit", due |-> now + BOARD_INIT_MS])
  /\ wire' = <<>>
  /\ UNCHANGED <<now, lastSent, ws, debounceTimer, currentGame,
                 currentVariant, hist>>
  /\ UNCHANGED fenVars

\* boardInitTimeout runs tryInitBoardSync(false); on a new board type
\* initBoardSync runs createUI, setupObserver, connectWebSocket and
\* onBoardChange
tryInitBoardSync(i) ==
  /\ i \in Pending(timers, "boardInit")
  /\ timers[i].due <= now
  /\ LET type == detectBoardType(page)
         rest == RemoveAt(timers, i)
     IN IF type # "UNKNOWN" /\ type # hist.lastBoardType
        THEN /\ closeExisting(page.script, ws)
                  => Cardinality(Pending(timers, "reconnect")) < MaxReconnects
             /\ timers' = onBoardChange(
                            timersAfterConnect(page.script, ws, rest, now),
                            debounceTimer, now)
             /\ debounceTimer' = now + DEBOUNCE_MS
             /\ ws' = "CONNECTING"
             /\ ret' = ConnectRet("initBoardSync")
             /\ hist' = [NoteCall(hist, rest, page)
                           EXCEPT !.lastBoardType = type]
        ELSE /\ timers' = rest
             /\ ret' = [fn |-> "tryInitBoardSync"]
             /\ UNCHANGED <<ws, debounceTimer, hist>>
  /\ wire' = <<>>
  /\ UNCHANGED <<page, now, lastSent, currentGame, currentVariant, currentFen,
                 net, overlay, cachedPlayerColor>>

\* the callback of onBoardChange of the installed script
RcDebounceFire(i) ==
  IF page.script = "BoardSync" THEN DebounceFire(i) ELSE V11DebounceFire(i)

NextReconnect ==
  \/ RcOpen
  \/ RcClose
  \/ \E d \in {ShortTick, RECONNECT_MS} : Tick(d)
  \/ \E i \in 1..Len(timers) : RcTimerFire(i)
  \/ forceReconnect
  \/ \E l \in {"WC_BOARD", "LIVE_BOARD", "UNKNOWN"} : BodyMutation(l)
  \/ \E i \in 1..Len(timers) : tryInitBoardSync(i)
  \/ \E i \in 1..Len(timers) : RcDebounceFire(i)

SpecReconnect == InitReconnect /\ [][NextReconnect]_vars

\* C24: connectWebSocket never finds the socket open, whoever calls it (the
\* reconnect timer, initBoardSync or the Reconnect button), and the close it
\* performs on the socket it finds arms no reconnect timer.
C24_ReconnectSparesOpenChannel ==
  ret.fn = "connectWebSocket" => ret.was # "OPEN" /\ ~ret.armed

(***************************************************************************)
(* Start-up on a document without a board.  The FEN sender (part_000, 24   *)
(* on) runs initializeScript once, INIT_DELAY_MS after it was loaded;      *)
(* BoardSync runs tryInitBoardSync at once and again 300 ms after every    *)
(* change under document.body.  A page of BoardSync carries script, a page *)
(* of the FEN sender is a FenPage.  hist.lastBoardType is the layout the   *)
(* script has initialised for (boardInfo.layoutType in the FEN sender),    *)
(* Null before.  The page acts until the script has initialised and while  *)
(* the clock has made fewer than MaxStartTicks steps.                      *)
(***************************************************************************)
INIT_DELAY_MS == 750
MaxStartTicks == 3

ScriptOf(p) == IF "script" \in DOMAIN p THEN p.script ELSE "FenSender"

StartPage(script, layout) ==
  IF script = "BoardSync" THEN PageOf(script, layout)
  ELSE FenPage(layout, "start", FALSE, 0, Null, Null, Null, "none", TRUE, NoVm)

\* the nodes of the document a page stands for: all those of its layout
DocumentOf(p) ==
  [nodes |-> IF p.layout = "WC_BOARD" THEN WcNodes
             ELSE IF p.layout = "LIVE_BOARD" THEN LiveNodes ELSE {}]

\* the layout the installed script detects in the document
Detects(p) ==
  IF ScriptOf(p) = "FenSender" THEN findChessBoard(DocumentOf(p))
  ELSE detectBoardType(p)

InitStartup ==
  /\ page \in {StartPage(s, "UNKNOWN") : s \in {"BoardSync", "FenSender"}}
  /\ now = 0
  /\ lastSent = [pieces |-> EmptyObject, moveList |-> <<>>, variant |-> ""]
  /\ ws = "CLOSED"
  /\ debounceTimer = NoTimer
  /\ timers = IF ScriptOf(page) = "FenSender"
              THEN <<[kind |-> "init", due |-> INIT_DELAY_MS]>> ELSE <<>>
  /\ currentGame = NoGame
  /\ currentVariant = "standard"
  /\ wire = <<>>
  /\ currentFen = NoFen
  /\ ret = NoRet
  /\ net = NoNet
  /\ overlay = NoOverlay
  /\ cachedPlayerColor = NoCache
  /\ hist = InitHist(page) @@ ("lastBoardType" :> Null)

\* the page puts a board in the document, or takes it out
StartupMutation(l) ==
  /\ hist.lastBoardType = Null
  /\ hist.ticks < MaxStartTicks
  /\ IF ScriptOf(page) = "BoardSync"
     THEN BodyMutation(l)
     ELSE /\ l # page.layout
          /\ page' = StartPage("FenSender", l)
          /\ wire' = <<>>
          /\ UNCHANGED <<now, lastSent, ws, debounceTimer, timers, currentGame,
                         currentVariant, hist>>
          /\ UNCHANGED fenVars

\* initializeScript of the FEN sender, run by its timer
initializeScript(i) ==
  /\ i \in Pending(timers, "init")
  /\ timers[i].due <= now
  /\ timers' = RemoveAt(timers, i)
  /\ IF findChessBoard(DocumentOf(page)) = "UNKNOWN"
     THEN /\ wire' = <<>>
          /\ UNCHANGED <<ws, hist>>
          /\ UNCHANGED fenVars
     ELSE /\ calculateAndSendFEN(NoFen)
          /\ ws' = "CONNECTING"
          /\ hist' = [hist EXCEPT
                        !.lastBoardType = findChessBoard(DocumentOf(page))]
          /\ UNCHANGED <<overlay, cachedPlayerColor>>
  /\ UNCHANGED <<page, now, lastSent, debounceTimer, currentGame,
                 currentVariant>>

StartupInit == \E i \in 1..Len(timers) : initializeScript(i)

StartupTryInit == \E i \in 1..Len(timers) : tryInitBoardSync(i)

StartupDebounce ==
  ScriptOf(page) = "BoardSync" /\ \E i \in 1..Len(timers) : DebounceFire(i)

\* the FEN sender has initialised: its observer and its debounce callback
StartupFenMutation ==
  /\ ScriptOf(page) = "FenSender"
  /\ hist.lastBoardType # Null
  /\ hist.ticks < MaxStartTicks
  /\ \E sc \in FenScenes(page.layout) : mutationCallback(sc)

StartupFenDebounce ==
  ScriptOf(page) = "FenSender" /\ \E i \in 1..Len(timers) : FenDebounceFire(i)

\* ws.onopen of the installed script
StartupOpen ==
  IF ScriptOf(page) = "BoardSync"
  THEN WsOpen
  ELSE /\ ws = "CONNECTING"
       /\ ws' = "OPEN"
       /\ wire' = onopen("FenSender")
       /\ UNCHANGED <<page, now, lastSent, debounceTimer, timers, currentGame,
                      currentVariant, hist>>
       /\ UNCHANGED fenVars

NextStartup ==
  \/ \E l \in {"WC_BOARD", "LIVE_BOARD", "UNKNOWN"} : StartupMutation(l)
  \/ LiveTick
  \/ StartupInit
  \/ StartupTryInit
  \/ StartupDebounce
  \/ StartupOpen
  \/ StartupFenMutation
  \/ StartupFenDebounce

\* setTimeout: time passes and a callback that is due is run (for the
\* debounce callback see SpecLive)
SpecStartup ==
  /\ InitStartup
  /\ [][NextStartup]_vars
  /\ WF_vars(LiveTick) /\ WF_vars(StartupInit) /\ WF_vars(StartupTryInit)
  /\ []<>~DebounceDue

\* C29: while the document holds a board the script detects and the
\* script has not initialised for it, the script comes to initialise for a
\* board (or the board leaves the document).
C29_LateBoardRecognised ==
  [](Detects(page) # "UNKNOWN" /\ hist.lastBoardType = Null
       => <>(hist.lastBoardType # Null \/ Detects(page) = "UNKNOWN"))

(***************************************************************************)
(* Boards without pieces.  The page of either script (BoardSync, or the    *)
(* FEN sender on a FenPage) may show the board root with no piece node in  *)
(* it, or with piece nodes of which none can be decoded.                   *)
(***************************************************************************)
IsFenPage(p) == "legible" \in DOMAIN p

BareScenes ==
  {Scene(pos, "fwd", "A", 0, "g1", "standard") : pos \in {"start", "empty"}}

BareFenPages(layout) ==
  {FenPage(layout, pos, FALSE, 0, Null, Null, Null, "none", legible, NoVm) :
     pos \in {"start", "empty"}, legible \in BOOLEAN}

InitBare == Init \/ InitFen

\* the observer of the installed script reports a change
BareMutation ==
  IF IsFenPage(page)
  THEN \E p \in BareFenPages(page.layout) :
         /\ page' = p
         /\ timers' = Append(clearTimeout(timers, debounceTimer),
                             [kind |-> "debounce", due |-> now + DEBOUNCE_DELAY_MS])
         /\ debounceTimer' = now + DEBOUNCE_DELAY_MS
         /\ wire' = <<>>
         /\ UNCHANGED <<now, lastSent, ws, currentGame, currentVariant,
                        currentFen, ret, hist>>
         /\ UNCHANGED <<net, overlay, cachedPlayerColor>>
  ELSE \E sc \in BareScenes : BoardMutation(sc)

\* the debounce callback of the installed script
BareDebounce ==
  \E i \in 1..Len(timers) :
    IF IsFenPage(page) THEN FenDebounceFire(i) ELSE DebounceFire(i)

BareOpen == ~IsFenPage(page) /\ WsOpen

NextBare ==
  \/ BareMutation
  \/ \E d \in {ShortTick, RECONNECT_MS} : Tick(d)
  \/ BareDebounce
  \/ BareOpen

SpecBare == InitBare /\ [][NextBare]_vars

\* the piece placement a message carries is that of a board without pieces
EmptyPlacement(a) ==
  IF IsFenPage(page) THEN a.body[1] = "8/8/8/8/8/8/8/8"
  ELSE IsBoardUpdate(a) /\ ~IsNewGame(a)
         /\ a.body.pieces = JSON_stringify(EmptyObject)

\* C31: no message a script sends carries an empty piece placement.
C31_NoEmptyPlacementSent ==
  \A i \in 1..Len(wire) : ~EmptyPlacement(wire[i])

(***************************************************************************)
(* Two piece nodes on one square.  page.placed lists, in document order,   *)
(* what the loop over the piece nodes has decoded: the rank index (0 for   *)
(* rank 8), the file index and the piece letter of each node.  The three   *)
(* extractors are applied to it: generateFEN of the FEN sender (boardOf),  *)
(* generateFEN of violent_monkey.js (vm_boardOf) and extractPieces of      *)
(* BoardSync (AssignAll).  ret.val is the letter each function leaves on   *)
(* every square a node decoded to.                                         *)
(***************************************************************************)
MaxNodes == 3

CollideCells == {<<7, 4>>, <<7, 3>>}

CollideNodes == {<<c[1], c[2], ch>> : c \in CollideCells, ch \in {"K", "Q"}}

CollideInputs ==
  UNION {[1..n -> CollideNodes] : n \in 1..MaxNodes}

\* the squares some node of placed decoded to
CellsOf(placed) == {<<placed[i][1], placed[i][2]>> : i \in 1..Len(placed)}

\* what extractPieces assigns for a decoded node: the key and the code
EntryOf(node) == <<Sq(node[2] + 1, 8 - node[1]), <<"w", node[3]>>>>

InitCollide ==
  /\ page \in {[placed |-> pl] : pl \in CollideInputs}
  /\ now = 0
  /\ lastSent = [pieces |-> EmptyObject, moveList |-> <<>>, variant |-> ""]
  /\ ws = "CLOSED"
  /\ debounceTimer = NoTimer
  /\ timers = <<>>
  /\ currentGame = NoGame
  /\ currentVariant = "standard"
  /\ wire = <<>>
  /\ currentFen = NoFen
  /\ ret = NoRet
  /\ net = NoNet
  /\ overlay = NoOverlay
  /\ cachedPlayerColor = NoCache
  /\ hist = InitHist(FirstScene)

Call_boardOf ==
  \E board \in {boardOf(page.placed)} :
    Return("boardOf", [c \in CellsOf(page.placed) |-> board[c[1]][c[2]]])

Call_vm_boardOf ==
  \E board \in {vm_boardOf(page.placed)} :
    Return("vm_boardOf", [c \in CellsOf(page.placed) |-> board[c[1]][c[2]]])

Call_AssignAll ==
  \E pieces \in {AssignAll([i \in 1..Len(page.placed) |->
                              EntryOf(page.placed[i])])} :
    Return("extractPieces",
           [c \in CellsOf(page.placed) |->
              pieces.val[Sq(c[2] + 1, 8 - c[1])][2]])

NextCollide == Call_boardOf \/ Call_vm_boardOf \/ Call_AssignAll

SpecCollide == InitCollide /\ [][NextCollide]_vars

\* the letter of the first node of placed that decoded to the square c
FirstAt(placed, c) ==
  placed[CHOOSE i \in 1..Len(placed) :
           /\ <<placed[i][1], placed[i][2]>> = c
           /\ \A j \in 1..(i - 1) : <<placed[j][1], placed[j][2]>> # c][3]

\* C32: each extractor leaves on a square the piece of the first node that
\* decoded to it.
C32_FirstWriteWins ==
  ret.fn \in {"boardOf", "vm_boardOf", "extractPieces"}
    => \A c \in CellsOf(page.placed) : ret.val[c] = FirstAt(page.placed, c)

(***************************************************************************)
(* A square sent through the renderer and back through the extractor.      *)
(* page names the square, the perspective and the size of a square in px;  *)
(* the layout is LIVE_BOARD, the one whose pieces the extractors place by  *)
(* their coordinates.  The renderer's coordinates are in thousandths of a  *)
(* px, and so is the square size handed to the extractor.                  *)
(***************************************************************************)
AllSquares == {SquareName(f, r) : f \in 1..8, r \in 1..8}

RoundTripPages ==
  {[layout |-> "LIVE_BOARD", square |-> sq, playingAsBlack |-> b,
    squareSize |-> size] :
     sq \in AllSquares, b \in BOOLEAN, size \in {SquarePx, SquarePx + 5}}

InitRoundTrip ==
  /\ page \in RoundTripPages
  /\ now = 0
  /\ lastSent = [pieces |-> EmptyObject, moveList |-> <<>>, variant |-> ""]
  /\ ws = "CLOSED"
  /\ debounceTimer = NoTimer
  /\ timers = <<>>
  /\ currentGame = NoGame
  /\ currentVariant = "standard"
  /\ wire = <<>>
  /\ currentFen = NoFen
  /\ ret = NoRet
  /\ net = NoNet
  /\ overlay = NoOverlay
  /\ cachedPlayerColor = NoCache
  /\ hist = InitHist(FirstScene)

\* FEN sender: getSquareCoordinates, then mapCoordsToSquare
Call_roundTrip ==
  \E c \in {getSquareCoordinates(page.square, page.playingAsBlack,
                                 page.squareSize)} :
    Return("roundTrip",
           mapCoordsToSquare(page.layout, c[1], c[2], page.squareSize * 1000,
                             page.playingAsBlack))

\* violent_monkey.js: getSquareCoordinates, then mapCoordsToSquare, which
\* takes no perspective
Call_vm_roundTrip ==
  \E c \in {vm_getSquareCoordinates(page.square, page.squareSize,
                                    page.playingAsBlack)} :
    Return("vm_roundTrip",
           IF c = NoCoords THEN NoSquare
           ELSE vm_mapCoordsToSquare(c[1], c[2], page.squareSize * 1000))

NextRoundTrip == Call_roundTrip \/ Call_vm_roundTrip

SpecRoundTrip == InitRoundTrip /\ [][NextRoundTrip]_vars

\* C38: the square the extractor reads at the coordinates the renderer
\* gives for a square, under the same perspective, is that square.
C38_RoundTripReturnsSquare ==
  ret.fn \in {"roundTrip", "vm_roundTrip"} => ret.val = page.square

(***************************************************************************)
(* The application: FenListener.tsx.  page holds what the component and    *)
(* the event system keep:                                                  *)
(*   enabled    fenSyncEnabledAtom in the default store                    *)
(*   mounted    the component is mounted                                   *)
(*   rendered   isFenSyncEnabled of the render whose effect ran last       *)
(*   current    the effect run whose cleanup React holds, 0 for none       *)
(*   effects    one record per run of the effect that called               *)
(*              setupListeners: pc is the listen call it awaits (1 to 3,   *)
(*              4 when setupListeners has returned), cleaned tells that    *)
(*              its cleanup has run                                        *)
(*   listeners  the registered listeners, <<effect run, event type>>       *)
(*   fen, variant   the FEN of the tree and activeVariantAtom              *)
(* listen registers the listener and hands out its unlisten function in    *)
(* the step in which the awaited promise resolves.  The other variables    *)
(* play no part.                                                           *)
(***************************************************************************)
MaxEffects == 2

EventTypes == <<"fen-update", "board-state-update", "new-game">>

NoPayload == [fen |-> Null, variant |-> Null]

\* payloads of fen-update are strings, the others records; "" is a blank
\* string
FenPayloads == {[fen |-> f, variant |-> Null] : f \in {"", "fenA", "fenB"}}

BoardStatePayloads ==
  {NoPayload} \cup {[fen |-> f, variant |-> v] :
                      f \in {"", "fenA", "fenB"}, v \in {"", "chess960"}}

NewGamePayloads ==
  {NoPayload} \cup {[fen |-> Null, variant |-> v] : v \in {"", "standard"}}

PayloadsOf(type) ==
  CASE type = "fen-update" -> FenPayloads
    [] type = "board-state-update" -> BoardStatePayloads
    [] OTHER -> NewGamePayloads

\* a handler that trusts the value its effect was set up with
enabledAtSetup(p) == TRUE

\* getDefaultStore().get(fenSyncEnabledAtom)
currentlyEnabled(p) == p.enabled

\* what one handler of the event type does to the tree and the variant
handleEvent(p, type, payload) ==
  IF ~currentlyEnabled(p) THEN p
  ELSE CASE type = "fen-update" ->
              IF payload.fen \notin {Null, ""}
              THEN [p EXCEPT !.fen = payload.fen] ELSE p
         [] type = "board-state-update" ->
              IF payload = NoPayload THEN p
              ELSE [p EXCEPT
                      !.variant = IF payload.variant # "" THEN payload.variant
                                  ELSE @,
                      !.fen = IF payload.fen # "" THEN payload.fen ELSE @]
         [] OTHER ->
              IF payload = NoPayload \/ payload.variant = "" THEN p
              ELSE [p EXCEPT !.variant = payload.variant]

\* the cleanup function of the effect run e: the unlisten functions that
\* are set are called
cleanupEffect(p, e) ==
  IF e = 0 THEN p
  ELSE [p EXCEPT !.listeners = {l \in @ : l[1] # e},
                 !.effects[e].cleaned = TRUE]

\* the effect: nothing when the setting is off, else setupListeners()
runEffect(p) ==
  IF ~p.enabled THEN [p EXCEPT !.rendered = FALSE, !.current = 0]
  ELSE [p EXCEPT !.rendered = TRUE, !.current = Len(p.effects) + 1,
                 !.effects = Append(@, [pc |-> 1, cleaned |-> FALSE])]

ListenerPage ==
  [enabled |-> FALSE, mounted |-> FALSE, rendered |-> FALSE, current |-> 0,
   effects |-> <<>>, listeners |-> {}, fen |-> "fen0", variant |-> "standard"]

InitListener ==
  /\ page \in {[ListenerPage EXCEPT !.enabled = b] : b \in BOOLEAN}
  /\ now = 0
  /\ lastSent = [pieces |-> EmptyObject, moveList |-> <<>>, variant |-> ""]
  /\ ws = "CLOSED"
  /\ debounceTimer = NoTimer
  /\ timers = <<>>
  /\ currentGame = NoGame
  /\ currentVariant = "standard"
  /\ wire = <<>>
  /\ currentFen = NoFen
  /\ ret = NoRet
  /\ net = NoNet
  /\ overlay = NoOverlay
  /\ cachedPlayerColor = NoCache
  /\ hist = InitHist(FirstScene)

ListenerStep(p, r) ==
  /\ page' = p
  /\ ret' = r
  /\ UNCHANGED <<now, lastSent, ws, debounceTimer, timers, currentGame,
                 currentVariant, wire, currentFen, net, overlay,
                 cachedPlayerColor, hist>>

\* the component mounts: first render, the effect runs
Mount ==
  /\ ~page.mounted
  /\ page.enabled => Len(page.effects) < MaxEffects
  /\ ListenerStep(runEffect([page EXCEPT !.mounted = TRUE]), [fn |-> "mount"])

\* the component unmounts: the cleanup of the last effect runs
Unmount ==
  /\ page.mounted
  /\ ListenerStep([cleanupEffect(page, page.current)
                     EXCEPT !.mounted = FALSE, !.current = 0],
                  [fn |-> "unmount"])

\* the user switches the setting in the settings page
ToggleSetting ==
  ListenerStep([page EXCEPT !.enabled = ~@], [fn |-> "toggle"])

\* the render after the setting changed: a dependency of the effect has
\* changed, the cleanup of the last run is called and the effect runs
Rerender ==
  /\ page.mounted /\ page.rendered # page.enabled
  /\ page.enabled => Len(page.effects) < MaxEffects
  /\ ListenerStep(runEffect(cleanupEffect(page, page.current)),
                  [fn |-> "render"])

\* the promise of the listen call the run e awaits resolves: the listener
\* is registered, its unlisten function is stored, and setupListeners goes
\* on to the next listen call
ListenResolved(e) ==
  /\ e \in 1..Len(page.effects) /\ page.effects[e].pc <= 3
  /\ ListenerStep([page EXCEPT
                     !.listeners = @ \cup {<<e, EventTypes[page.effects[e].pc]>>},
                     !.effects[e].pc = @ + 1],
                  [fn |-> "listen", effect |-> e,
                   cleaned |-> page.effects[e].cleaned])

\* the promise is rejected: the catch block logs, setupListeners returns
ListenRejected(e) ==
  /\ e \in 1..Len(page.effects) /\ page.effects[e].pc <= 3
  /\ ListenerStep([page EXCEPT !.effects[e].pc = 4],
                  [fn |-> "listenFailed", effect |-> e,
                   cleaned |-> page.effects[e].cleaned])

\* the backend emits an event: every listener registered for its type
\* handles it
Emit(type, payload) ==
  /\ payload \in PayloadsOf(type)
  /\ LET n == Cardinality({l \in page.listeners : l[2] = type})
     IN ListenerStep(IF n > 0 THEN handleEvent(page, type, payload) ELSE page,
                     [fn |-> "emit", type |-> type, handlers |-> n,
                      enabled |-> page.enabled,
                      changed |-> n > 0 /\ handleEvent(page, type, payload) # page])

NextListener ==
  \/ Mount
  \/ Unmount
  \/ ToggleSetting
  \/ Rerender
  \/ \E e \in 1..MaxEffects : ListenResolved(e)
  \/ \E e \in 1..MaxEffects : ListenRejected(e)
  \/ \E i \in 1..3 : \E payload \in PayloadsOf(EventTypes[i]) :
       Emit(EventTypes[i], payload)

SpecListener == InitListener /\ [][NextListener]_vars

\* C39: while the setting is off no step changes the FEN of the tree or
\* the active variant, and an event handled while the setting is off
\* changes nothing, whatever the setting was when its listener was set up.
C39_DisabledChangesNothing ==
  [][/\ ~page.enabled => page'.fen = page.fen /\ page'.variant = page.variant
     /\ ret'.fn = "emit" /\ ~ret'.enabled => ~ret'.changed]_vars

\* an event with a usable payload was handled by a listener while the
\* setting was off
C39_HandledWhileOff ==
  /\ ret.fn = "emit" /\ ~ret.enabled /\ ret.handlers > 0
  /\ ret.type = "board-state-update"

\* C40: no event type has two registered listeners, and no listener of an
\* effect run whose cleanup has run is registered.
C40_OneListenerNoneAfterCleanup ==
  /\ \A i \in 1..3 :
       Cardinality({l \in page.listeners : l[2] = EventTypes[i]}) <= 1
  /\ \A l \in page.listeners : ~page.effects[l[1]].cleaned

====
